---- MODULE Spec2Model ----
(***************************************************************************)
(* A model of the positional-astronomy routines of the tracking library    *)
(* (SLALIB routines slaDtf2d, slaS2tp, slaPlanet) as they are called by a  *)
(* cyclic caller.  The routines are pure; the state of the model is the    *)
(* caller's argument and output buffers, which persist between calls.      *)
(*                                                                         *)
(* Numbers.  C doubles and floats are modelled by integers:                *)
(*   - seconds of time are counted in milliseconds;                        *)
(*   - single-precision values (angles in radians, sines, cosines and      *)
(*     their products) are counted in units of 1e-7, so that TINY = 1e-6   *)
(*     is 10 units and 1.0 is ONE;                                         *)
(*   - a quotient is kept as the pair [num, den] of the dividend and the   *)
(*     divisor the code actually used (den = 0 is a division by zero);     *)
(*   - a Modified Julian Date is counted in hundredths of a day;           *)
(*   - a component of the state vector pv is represented by the statement  *)
(*     that wrote it last: the zeroing loop, slaPlanel, or the Pluto       *)
(*     transformation (its numerical value is not modelled).               *)
(***************************************************************************)
EXTENDS Integers, Sequences, FiniteSets, TLC

VARIABLES
    dtf,    \* slaDtf2d: the caller's latest arguments and the outputs *days, *j
    s2tp,   \* slaS2tp: the caller's latest arguments, the outputs *xi, *eta, *j
            \* and the routine's local denom as first computed
    planet, \* slaPlanet: the caller's latest arguments, the outputs pv, *jstat,
            \* the buffer pv as it was on entry, the status as set by the date
            \* test, the calls made to slaPlanel, dl and dom before their
            \* reduction, and the rows of term evaluated
    av2m,   \* slaAv2m: the caller's latest argument axvec, the output rmat,
            \* the local phi and the divisors of the divisions performed
    nutc,   \* slaNutc: the caller's latest argument date, the outputs *dpsi,
            \* *deps, *eps0, what they held on entry, the locals dp and de
            \* after the loop and the rows of the series accumulated
    nterms, \* slaNutc: the static int nterms
    hist,   \* a caller of the whole library: its latest call and result, an
            \* earlier call and result it has kept, whether it has made a
            \* different call since, and its buffer pv
    thr,    \* the threads calling slaNutc and slaPlanet: where each is in its
            \* call, the routine and arguments, and its caller's outputs
    frames, \* the instances of the routines' locals
    trk     \* CtrkModule: its smart pointers, the caller's list, where a
            \* transition stands, and the latest cycle

vars == <<dtf, s2tp, planet, av2m, nutc, nterms, hist, thr, frames, trk>>

(***************************************************************************)
(* Bounds of the model.                                                    *)
(***************************************************************************)
\* how far outside its legal range an enumerated input may lie
Slack == 2

Abs(x) == IF x < 0 THEN -x ELSE x

\* the element of a set of one element: The({ e(x) : x \in {v} }) is e(v),
\* with v computed once
The(S) == CHOOSE x \in S : TRUE

\* the quotient n / d as the code forms it
Ratio(n, d) == [num |-> n, den |-> d]

(***************************************************************************)
(* slaDtf2d: hours, minutes, seconds to days.                              *)
(***************************************************************************)
\* #define D2S 86400.0 : seconds per day
D2S == 86400

\* milliseconds per second: the resolution of the double sec in the model
MsPerSec == 10 * 100

\* the three range tests, in the order the code makes them
SecOutOfRange(sec) == (sec < 0) \/ (sec >= 60 * MsPerSec)
MinOutOfRange(imin) == (imin < 0) \/ (imin > 59)
HourOutOfRange(ihour) == (ihour < 0) \/ (ihour > 23)

\* faulty variant: the tests made in the order hour, minute, second
Dtf2dStatusSecFirst(ihour, imin, sec) ==
    LET j0 == 0
        j1 == IF HourOutOfRange(ihour) THEN 1 ELSE j0
        j2 == IF MinOutOfRange(imin) THEN 2 ELSE j1
        j3 == IF SecOutOfRange(sec) THEN 3 ELSE j2
    IN  j3

\* faulty variant: sec = 60 accepted
Dtf2dStatusSecInclusive(ihour, imin, sec) ==
    LET j0 == 0
        j1 == IF (sec < 0) \/ (sec > 60 * MsPerSec) THEN 3 ELSE j0
        j2 == IF MinOutOfRange(imin) THEN 2 ELSE j1
        j3 == IF HourOutOfRange(ihour) THEN 1 ELSE j2
    IN  j3

\* jstat after the preset and the three successive (overwriting) tests
Dtf2dStatus(ihour, imin, sec) ==
    LET j0 == 0
        j1 == IF SecOutOfRange(sec) THEN 3 ELSE j0
        j2 == IF MinOutOfRange(imin) THEN 2 ELSE j1
        j3 == IF HourOutOfRange(ihour) THEN 1 ELSE j2
    IN  j3

\* faulty variant: the interval computed only when the range tests pass
Dtf2dDaysOnlyIfValid(ihour, imin, sec) ==
    IF Dtf2dStatus(ihour, imin, sec) = 0
    THEN Ratio(MsPerSec * (60 * (60 * ihour + imin)) + sec, D2S * MsPerSec)
    ELSE Ratio(0, D2S * MsPerSec)

\* *days = ( 60.0 * ( 60.0 * ihour + imin ) + sec ) / D2S, sec in milliseconds
Dtf2dDays(ihour, imin, sec) ==
    Ratio(MsPerSec * (60 * (60 * ihour + imin)) + sec, D2S * MsPerSec)

\* the whole routine: both outputs are written on every call
slaDtf2d(ihour, imin, sec) ==
    [days |-> Dtf2dDays(ihour, imin, sec), j |-> Dtf2dStatus(ihour, imin, sec)]

\* the inputs the caller is modelled to pass
DtfHours == (-Slack .. 0) \cup {12} \cup (23 .. 23 + Slack)
DtfMinutes == (-Slack .. 0) \cup {30, 70} \cup (59 .. 59 + Slack)
DtfSeconds == {-1, 0, 30 * MsPerSec, 60 * MsPerSec - 1, 60 * MsPerSec,
               60 * MsPerSec + 1, 70 * MsPerSec}

DtfInit ==
    dtf = [called |-> FALSE, ihour |-> 0, imin |-> 0, sec |-> 0,
           days |-> Ratio(0, D2S * MsPerSec), j |-> 0]

Dtf2dCall ==
    /\ UNCHANGED <<s2tp, planet, av2m, nutc, nterms, hist, thr, frames, trk>>
    /\ \E ihour \in DtfHours, imin \in DtfMinutes, sec \in DtfSeconds :
        LET r == slaDtf2d(ihour, imin, sec)
        IN  dtf' = [called |-> TRUE, ihour |-> ihour, imin |-> imin, sec |-> sec,
                    days |-> r.days, j |-> r.j]

(***************************************************************************)
(* Single-precision arithmetic in units of 1e-7.                           *)
(***************************************************************************)
\* #define TINY 1e-6f, in units of 1e-7
TINY == 10

\* 1.0f
ONE == 1000000 * TINY

\* pi/2 = 1.5707963..., the quarter turn of the angle argument of sin_, cos_
QuarterTurn == 15707963

\* the product a * b, rounded toward zero to the unit; the partial products
\* of the 10^4-digit halves keep every intermediate value below 2^31
MulFix(a, b) ==
    LET ah == Abs(a) \div 10000
        al == Abs(a) % 10000
        bh == Abs(b) \div 10000
        bl == Abs(b) % 10000
        m  == ah * bh * 10 + ((ah * bl + al * bh + (al * bl) \div 10000) \div 1000)
    IN  IF (a < 0) = (b < 0) THEN m ELSE -m

\* sine and cosine of an angle x in [-pi/4, pi/4], by their power series
SinSeries(x) ==
    LET x2 == MulFix(x, x)
        t3 == ONE - x2 \div 42
        t2 == ONE - MulFix(x2, t3) \div 20
        t1 == ONE - MulFix(x2, t2) \div 6
    IN  MulFix(x, t1)

CosSeries(x) ==
    LET x2 == MulFix(x, x)
        t4 == ONE - x2 \div 56
        t3 == ONE - MulFix(x2, t4) \div 30
        t2 == ONE - MulFix(x2, t3) \div 12
        t1 == ONE - MulFix(x2, t2) \div 2
    IN  t1

\* the quarter turn nearest the angle a, and the remainder in [-pi/4, pi/4)
Quadrant(a) == (a + QuarterTurn \div 2) \div QuarterTurn
Reduced(a) == a - Quadrant(a) * QuarterTurn

sin_(a) ==
    LET k == Quadrant(a) % 4
        x == Reduced(a)
    IN  CASE k = 0 -> SinSeries(x)
          [] k = 1 -> CosSeries(x)
          [] k = 2 -> -SinSeries(x)
          [] k = 3 -> -CosSeries(x)

cos_(a) ==
    LET k == Quadrant(a) % 4
        x == Reduced(a)
    IN  CASE k = 0 -> CosSeries(x)
          [] k = 1 -> -SinSeries(x)
          [] k = 2 -> -CosSeries(x)
          [] k = 3 -> SinSeries(x)

(***************************************************************************)
(* slaS2tp: projection of spherical coordinates onto the tangent plane.    *)
(***************************************************************************)
\* faulty variant: the sum instead of the difference
S2tpRadifSum(ra, raz) == ra + raz

\* radif = ra - raz
S2tpRadif(ra, raz) == ra - raz

\* denom = sdec * sdecz + cdec * cdecz * cradif
S2tpDenom(ra, dec, raz, decz) ==
    LET sdecz  == sin_(decz)
        sdec   == sin_(dec)
        cdecz  == cos_(decz)
        cdec   == cos_(dec)
        cradif == cos_(S2tpRadif(ra, raz))
    IN  MulFix(sdec, sdecz) + MulFix(MulFix(cdec, cdecz), cradif)

\* faulty variant: denom = 0 falls to the antistar branch
S2tpClassifyStrictZero(denom) ==
    IF denom > TINY THEN [j |-> 0, denom |-> denom]
    ELSE IF denom > 0 THEN [j |-> 1, denom |-> TINY]
    ELSE IF denom > -TINY THEN [j |-> 2, denom |-> -TINY]
    ELSE [j |-> 3, denom |-> denom]

\* faulty variant: the limits +TINY and -TINY on the other side
S2tpClassifyInclusiveTiny(denom) ==
    IF denom >= TINY THEN [j |-> 0, denom |-> denom]
    ELSE IF denom >= 0 THEN [j |-> 1, denom |-> TINY]
    ELSE IF denom >= -TINY THEN [j |-> 2, denom |-> -TINY]
    ELSE [j |-> 3, denom |-> denom]

\* faulty variant: denom not replaced by +TINY or -TINY
S2tpClassifyNoClamp(denom) ==
    IF denom > TINY THEN [j |-> 0, denom |-> denom]
    ELSE IF denom >= 0 THEN [j |-> 1, denom |-> denom]
    ELSE IF denom > -TINY THEN [j |-> 2, denom |-> denom]
    ELSE [j |-> 3, denom |-> denom]

\* the four-way test on denom: the status and the divisor used afterwards
S2tpClassify(denom) ==
    IF denom > TINY THEN [j |-> 0, denom |-> denom]
    ELSE IF denom >= 0 THEN [j |-> 1, denom |-> TINY]
    ELSE IF denom > -TINY THEN [j |-> 2, denom |-> -TINY]
    ELSE [j |-> 3, denom |-> denom]

\* the dividends of *xi and *eta
S2tpXiNum(ra, dec, raz, decz) ==
    MulFix(cos_(dec), sin_(S2tpRadif(ra, raz)))

S2tpEtaNum(ra, dec, raz, decz) ==
    LET sdecz  == sin_(decz)
        sdec   == sin_(dec)
        cdecz  == cos_(decz)
        cdec   == cos_(dec)
        cradif == cos_(S2tpRadif(ra, raz))
    IN  MulFix(sdec, cdecz) - MulFix(MulFix(cdec, sdecz), cradif)

\* the whole routine: the outputs, and the local denom as first computed
slaS2tp(ra, dec, raz, decz) ==
    LET denom == S2tpDenom(ra, dec, raz, decz)
        c     == S2tpClassify(denom)
    IN  [xi    |-> Ratio(S2tpXiNum(ra, dec, raz, decz), c.denom),
         eta   |-> Ratio(S2tpEtaNum(ra, dec, raz, decz), c.denom),
         j     |-> c.j,
         denom |-> denom]

\* the inputs the caller is modelled to pass: right ascensions a quarter turn
\* from the tangent point to within TINY + Slack units, and a few others
NearQuarter == { QuarterTurn + d : d \in -(TINY + Slack) .. (TINY + Slack) }
S2tpRa == {0, 5235988, 2 * QuarterTurn} \cup NearQuarter
S2tpRaz == {0, 5235988}
S2tpDec == {0, 5235988, -7853982, QuarterTurn}
S2tpDecz == {0, 5235988, -7853982, QuarterTurn}

S2tpInit ==
    s2tp = [called |-> FALSE, ra |-> 0, dec |-> 0, raz |-> 0, decz |-> 0,
            xi |-> Ratio(0, ONE), eta |-> Ratio(0, ONE), j |-> 0, denom |-> ONE]

\* the routine's graph over the modelled inputs: the pairs <<arguments, results>>
S2tpResults ==
    { <<a, slaS2tp(a[1], a[2], a[3], a[4])>> :
        a \in S2tpRa \X S2tpDec \X S2tpRaz \X S2tpDecz }

S2tpCall ==
    /\ UNCHANGED <<dtf, planet, av2m, nutc, nterms, hist, thr, frames, trk>>
    /\ \E p \in S2tpResults :
        LET a == p[1]
            r == p[2]
        IN  s2tp' = [called |-> TRUE, ra |-> a[1], dec |-> a[2], raz |-> a[3],
                     decz |-> a[4], xi |-> r.xi, eta |-> r.eta, j |-> r.j,
                     denom |-> r.denom]

\* r * r <= v * ONE, compared in two limbs of eight decimal digits
SquareAtMost(r, v) ==
    LET rh  == r \div 10000
        rl  == r % 10000
        m   == 2 * rh * rl
        lo0 == (m % 10000) * 10000 + rl * rl
        hi  == rh * rh + m \div 10000 + lo0 \div 100000000
        lo  == lo0 % 100000000
    IN  (hi < v \div 10) \/ ((hi = v \div 10) /\ (lo <= (v % 10) * 10000000))

RECURSIVE SqrtBisect(_, _, _)
\* the largest r in lo .. hi - 1 whose square is at most v
SqrtBisect(lo, hi, v) ==
    IF hi - lo <= 1 THEN lo
    ELSE LET mid == (lo + hi) \div 2
         IN  IF SquareAtMost(mid, v) THEN SqrtBisect(mid, hi, v)
             ELSE SqrtBisect(lo, mid, v)

\* the square root, for 0 <= v < 16
sqrt_(v) == SqrtBisect(0, 4 * ONE, v)

(***************************************************************************)
(* slaPlanet: approximate heliocentric position and velocity of a planet.  *)
(***************************************************************************)
\* the epoch J2000 as a Modified Julian Date, 51544.5, in hundredths of a day
DJ2000 == 5154450

\* what a component of pv can hold
PvUnset == "unset"        \* the caller's buffer before any call
PvZero == "0.0"           \* pv[i] = 0.0
PvPlanel == "slaPlanel"   \* written by slaPlanel
PvPluto == "pluto"        \* written by the transformation to the J2000 equator

\* faulty variant: the loop stops one component short
PlanetZeroPvShort(pv) == [i \in 0 .. 5 |-> IF i < 5 THEN PvZero ELSE pv[i]]

\* for ( i = 0; i <= 5; i++ ) pv[i] = 0.0
PlanetZeroPv(pv) == [i \in 0 .. 5 |-> PvZero]

\* np < 1 || np > 9
PlanetNpIllegal(np) == (np < 1) \/ (np > 9)

\* t = ( date - 51544.5 ) / 365250.0 : Julian millennia since J2000
PlanetT(date) == Ratio(date - DJ2000, 36525000)

\* *jstat = ( fabs_ ( t ) <= 1.0 ) ? 0 : 1
PlanetDateStatus(t) == IF Abs(t.num) <= t.den THEN 0 ELSE 1

\* t = ( date - 51544.5 ) / 36525.0 : Julian centuries since J2000
PlutoT(date) == Ratio(date - DJ2000, 3652500)

\* *jstat = t >= -1.15 && t <= 1.0 ? 0 : -1
PlutoDateStatus(t) ==
    IF (20 * t.num >= -23 * t.den) /\ (t.num <= t.den) THEN 0 ELSE -1

\* the inputs the caller is modelled to pass: J2000, the four limits of the
\* two validity windows, and the dates Slack hundredths of a day before and
\* after each limit
PlanetDateLimits ==
    {DJ2000 - 36525000, DJ2000 + 36525000, DJ2000 - 4200375, DJ2000 + 3652500}
PlanetDates ==
    {DJ2000} \cup { b + d : b \in PlanetDateLimits, d \in {-Slack, 0, Slack} }
PlanetBodies == (1 - Slack) .. (9 + Slack)

RECURSIVE DivDigits(_, _, _)
\* the first k decimal digits of rem / d, for 0 <= rem < d
DivDigits(rem, d, k) ==
    IF k = 0 THEN 0
    ELSE ((rem * 10) \div d) * 10 ^ (k - 1) + DivDigits((rem * 10) % d, d, k - 1)

\* the quotient n / d in units of 1 / ONE
DivFix(n, d) ==
    LET m == (Abs(n) \div Abs(d)) * ONE + DivDigits(Abs(n) % Abs(d), Abs(d), 7)
    IN  IF (n < 0) = (d < 0) THEN m ELSE -m

\* a quotient kept as numerator and denominator, in units of 1 / ONE
Fix(r) == DivFix(r.num, r.den)

\* Angles of the mean elements are held in units of 1e-4 radian.
\* 2 * pi
D2PI == 62832

\* arcseconds to radians (4.848136811e-6): the radians in 10 arcseconds, in
\* units of 1e-4 radian, times ONE
DAS2R == 4848137

\* degrees to radians (0.0174532925): the units of 1e-7 radian in 1e-5
\* degree, times ONE
DD2R == 17453293

\* A modulo B, floor-based: in [0, B) for B > 0 whatever the sign of A
dmod(A, B) == IF B # 0 THEN A % B ELSE A

\* dlm[8][3]: mean longitude; the constant in units of 1e-4 degree, the
\* rates in units of 10 arcseconds
dlm ==
    << <<2522509, 538101629, 0>>,
       <<1819798, 210664136, 0>>,
       <<1004665, 129597742, 0>>,
       <<3554330, 68905077, 0>>,
       <<343515, 10925660, -3>>,
       <<500774, 4399610, 8>>,
       <<3140550, 1542481, 0>>,
       <<3043487, 786550, 0>> >>

\* pi[8][3]: longitude of the perihelion; the constant in units of 1e-4 degree, the
\* rates in units of 10 arcseconds
pi ==
    << <<774561, 572, 0>>,
       <<1315637, 18, -50>>,
       <<1029373, 1161, 5>>,
       <<3360602, 1598, -6>>,
       <<143312, 776, 26>>,
       <<930572, 2040, 19>>,
       <<1730053, 322, -3>>,
       <<481203, 105, 3>> >>

\* dinc[8][3]: inclination; the constant in units of 1e-4 degree, the
\* rates in units of 10 arcseconds
dinc ==
    << <<70050, -21, 0>>,
       <<33947, -3, -1>>,
       <<0, 47, 0>>,
       <<18497, -29, -1>>,
       <<13033, -7, 1>>,
       <<24889, 9, -2>>,
       <<7732, -6, 0>>,
       <<17700, 1, 0>> >>

\* omega[8][3]: longitude of the ascending node; the constant in units of 1e-4 degree, the
\* rates in units of 10 arcseconds
omega ==
    << <<483309, -452, -3>>,
       <<766799, -1001, -5>>,
       <<1748732, -868, 2>>,
       <<495581, -1062, -23>>,
       <<1004644, 636, 33>>,
       <<1136655, -924, -7>>,
       <<740060, 267, 15>>,
       <<1317841, -22, 0>> >>

\* dkq[8][10]: multipliers of dmu in the arguments of the longitude terms
dkq ==
    << <<3086, 15746, 69613, 59899, 75645, 88306, 12661, 2658, 0, 0>>,
       <<21863, 32794, 10931, 73, 4387, 26934, 1473, 2157, 0, 0>>,
       <<10, 16002, 21863, 10931, 1473, 32004, 4387, 73, 0, 0>>,
       <<10, 6345, 7818, 1107, 15636, 7077, 8184, 532, 10, 0>>,
       <<19, 1760, 1454, 287, 1167, 880, 574, 2640, 19, 1454>>,
       <<19, 574, 287, 306, 1760, 12, 31, 38, 19, 574>>,
       <<4, 204, 177, 8, 31, 200, 1265, 102, 4, 204>>,
       <<4, 102, 106, 8, 98, 1367, 487, 204, 4, 102>> >>

\* clo[8][10]: cosine coefficients of the longitude terms, units of 1e-7 radian
clo ==
    << <<21, -95, -157, 41, -5, 42, 23, 30, 0, 0>>,
       <<-160, -313, -235, 60, -74, -76, -27, 34, 0, 0>>,
       <<-325, -322, -79, 232, -52, 97, 55, -41, 0, 0>>,
       <<2268, -979, 802, 602, -668, -33, 345, 201, -55, 0>>,
       <<7610, -4997, -7689, -5841, -2617, 1115, -748, -607, 6074, 354>>,
       <<-18549, 30125, 20012, -730, 824, 23, 1289, -352, -14767, -2062>>,
       <<-135245, -14594, 4197, -4030, -5630, -2898, 2540, -306, 2939, 1986>>,
       <<89948, 2103, 8963, 2695, 3682, 1648, 866, -154, -1963, -283>> >>

\* slo[8][10]: sine coefficients of the longitude terms, units of 1e-7 radian
slo ==
    << <<-342, 136, -23, 62, 66, -52, -33, 17, 0, 0>>,
       <<524, -149, -35, 117, 151, 122, -71, -62, 0, 0>>,
       <<-105, -137, 258, 35, -116, -88, -112, -80, 0, 0>>,
       <<854, -205, -936, -240, 140, -341, -97, -232, 536, 0>>,
       <<-56980, 8016, 1012, 1448, -3024, -3710, 318, 503, 3767, 577>>,
       <<138606, -13478, -4964, 1441, -1319, -1482, 427, 1236, -9167, -1918>>,
       <<71234, -41116, 5334, -4935, -1848, 66, 434, -1748, 3780, -701>>,
       <<-47645, 11647, 2166, 3194, 679, 0, -244, -419, -2531, 48>> >>

\* term[]: Meeus's Table 36.A, one row per periodic term: the multiples ij,
\* is, ip of the arguments of Jupiter, Saturn and Pluto, then the sine (a)
\* and cosine (b) coefficients in longitude and latitude (units of 1e-6
\* degree) and in radius vector (units of 1e-7 AU)
term ==
    << [ij |-> 0, is |-> 0, ip |-> 1,
        dlbr |-> <<[a |-> -19798886, b |-> 19848454], [a |-> -5453098, b |-> -14974876], [a |-> 66867334, b |-> 68955876]>>],
       [ij |-> 0, is |-> 0, ip |-> 2,
        dlbr |-> <<[a |-> 897499, b |-> -4955707], [a |-> 3527363, b |-> 1672673], [a |-> -11826086, b |-> -333765]>>],
       [ij |-> 0, is |-> 0, ip |-> 3,
        dlbr |-> <<[a |-> 610820, b |-> 1210521], [a |-> -1050939, b |-> 327763], [a |-> 1593657, b |-> -1439953]>>],
       [ij |-> 0, is |-> 0, ip |-> 4,
        dlbr |-> <<[a |-> -341639, b |-> -189719], [a |-> 178691, b |-> -291925], [a |-> -18948, b |-> 482443]>>],
       [ij |-> 0, is |-> 0, ip |-> 5,
        dlbr |-> <<[a |-> 129027, b |-> -34863], [a |-> 18763, b |-> 100448], [a |-> -66634, b |-> -85576]>>],
       [ij |-> 0, is |-> 0, ip |-> 6,
        dlbr |-> <<[a |-> -38215, b |-> 31061], [a |-> -30594, b |-> -25838], [a |-> 30841, b |-> -5765]>>],
       [ij |-> 0, is |-> 1, ip |-> -1,
        dlbr |-> <<[a |-> 20349, b |-> -9886], [a |-> 4965, b |-> 11263], [a |-> -6140, b |-> 22254]>>],
       [ij |-> 0, is |-> 1, ip |-> 0,
        dlbr |-> <<[a |-> -4045, b |-> -4904], [a |-> 310, b |-> -132], [a |-> 4434, b |-> 4443]>>],
       [ij |-> 0, is |-> 1, ip |-> 1,
        dlbr |-> <<[a |-> -5885, b |-> -3238], [a |-> 2036, b |-> -947], [a |-> -1518, b |-> 641]>>],
       [ij |-> 0, is |-> 1, ip |-> 2,
        dlbr |-> <<[a |-> -3812, b |-> 3011], [a |-> -2, b |-> -674], [a |-> -5, b |-> 792]>>],
       [ij |-> 0, is |-> 1, ip |-> 3,
        dlbr |-> <<[a |-> -601, b |-> 3468], [a |-> -329, b |-> -563], [a |-> 518, b |-> 518]>>],
       [ij |-> 0, is |-> 2, ip |-> -2,
        dlbr |-> <<[a |-> 1237, b |-> 463], [a |-> -64, b |-> 39], [a |-> -13, b |-> -221]>>],
       [ij |-> 0, is |-> 2, ip |-> -1,
        dlbr |-> <<[a |-> 1086, b |-> -911], [a |-> -94, b |-> 210], [a |-> 837, b |-> -494]>>],
       [ij |-> 0, is |-> 2, ip |-> 0,
        dlbr |-> <<[a |-> 595, b |-> -1229], [a |-> -8, b |-> -160], [a |-> -281, b |-> 616]>>],
       [ij |-> 1, is |-> -1, ip |-> 0,
        dlbr |-> <<[a |-> 2484, b |-> -485], [a |-> -177, b |-> 259], [a |-> 260, b |-> -395]>>],
       [ij |-> 1, is |-> -1, ip |-> 1,
        dlbr |-> <<[a |-> 839, b |-> -1414], [a |-> 17, b |-> 234], [a |-> -191, b |-> -396]>>],
       [ij |-> 1, is |-> 0, ip |-> -3,
        dlbr |-> <<[a |-> -964, b |-> 1059], [a |-> 582, b |-> -285], [a |-> -3218, b |-> 370]>>],
       [ij |-> 1, is |-> 0, ip |-> -2,
        dlbr |-> <<[a |-> -2303, b |-> -1038], [a |-> -298, b |-> 692], [a |-> 8019, b |-> -7869]>>],
       [ij |-> 1, is |-> 0, ip |-> -1,
        dlbr |-> <<[a |-> 7049, b |-> 747], [a |-> 157, b |-> 201], [a |-> 105, b |-> 45637]>>],
       [ij |-> 1, is |-> 0, ip |-> 0,
        dlbr |-> <<[a |-> 1179, b |-> -358], [a |-> 304, b |-> 825], [a |-> 8623, b |-> 8444]>>],
       [ij |-> 1, is |-> 0, ip |-> 1,
        dlbr |-> <<[a |-> 393, b |-> -63], [a |-> -124, b |-> -29], [a |-> -896, b |-> -801]>>],
       [ij |-> 1, is |-> 0, ip |-> 2,
        dlbr |-> <<[a |-> 111, b |-> -268], [a |-> 15, b |-> 8], [a |-> 208, b |-> -122]>>],
       [ij |-> 1, is |-> 0, ip |-> 3,
        dlbr |-> <<[a |-> -52, b |-> -154], [a |-> 7, b |-> 15], [a |-> -133, b |-> 65]>>],
       [ij |-> 1, is |-> 0, ip |-> 4,
        dlbr |-> <<[a |-> -78, b |-> -30], [a |-> 2, b |-> 2], [a |-> -16, b |-> 1]>>],
       [ij |-> 1, is |-> 1, ip |-> -3,
        dlbr |-> <<[a |-> -34, b |-> -26], [a |-> 4, b |-> 2], [a |-> -22, b |-> 7]>>],
       [ij |-> 1, is |-> 1, ip |-> -2,
        dlbr |-> <<[a |-> -43, b |-> 1], [a |-> 3, b |-> 0], [a |-> -8, b |-> 16]>>],
       [ij |-> 1, is |-> 1, ip |-> -1,
        dlbr |-> <<[a |-> -15, b |-> 21], [a |-> 1, b |-> -1], [a |-> 2, b |-> 9]>>],
       [ij |-> 1, is |-> 1, ip |-> 0,
        dlbr |-> <<[a |-> -1, b |-> 15], [a |-> 0, b |-> -2], [a |-> 12, b |-> 5]>>],
       [ij |-> 1, is |-> 1, ip |-> 1,
        dlbr |-> <<[a |-> 4, b |-> 7], [a |-> 1, b |-> 0], [a |-> 1, b |-> -3]>>],
       [ij |-> 1, is |-> 1, ip |-> 3,
        dlbr |-> <<[a |-> 1, b |-> 5], [a |-> 1, b |-> -1], [a |-> 1, b |-> 0]>>],
       [ij |-> 2, is |-> 0, ip |-> -6,
        dlbr |-> <<[a |-> 8, b |-> 3], [a |-> -2, b |-> -3], [a |-> 9, b |-> 5]>>],
       [ij |-> 2, is |-> 0, ip |-> -5,
        dlbr |-> <<[a |-> -3, b |-> 6], [a |-> 1, b |-> 2], [a |-> 2, b |-> -1]>>],
       [ij |-> 2, is |-> 0, ip |-> -4,
        dlbr |-> <<[a |-> 6, b |-> -13], [a |-> -8, b |-> 2], [a |-> 14, b |-> 10]>>],
       [ij |-> 2, is |-> 0, ip |-> -3,
        dlbr |-> <<[a |-> 10, b |-> 22], [a |-> 10, b |-> -7], [a |-> -65, b |-> 12]>>],
       [ij |-> 2, is |-> 0, ip |-> -2,
        dlbr |-> <<[a |-> -57, b |-> -32], [a |-> 0, b |-> 21], [a |-> 126, b |-> -233]>>],
       [ij |-> 2, is |-> 0, ip |-> -1,
        dlbr |-> <<[a |-> 157, b |-> -46], [a |-> 8, b |-> 5], [a |-> 270, b |-> 1068]>>],
       [ij |-> 2, is |-> 0, ip |-> 0,
        dlbr |-> <<[a |-> 12, b |-> -18], [a |-> 13, b |-> 16], [a |-> 254, b |-> 155]>>],
       [ij |-> 2, is |-> 0, ip |-> 1,
        dlbr |-> <<[a |-> -4, b |-> 8], [a |-> -2, b |-> -3], [a |-> -26, b |-> -2]>>],
       [ij |-> 2, is |-> 0, ip |-> 2,
        dlbr |-> <<[a |-> -5, b |-> 0], [a |-> 0, b |-> 0], [a |-> 7, b |-> 0]>>],
       [ij |-> 2, is |-> 0, ip |-> 3,
        dlbr |-> <<[a |-> 3, b |-> 4], [a |-> 0, b |-> 1], [a |-> -11, b |-> 4]>>],
       [ij |-> 3, is |-> 0, ip |-> -2,
        dlbr |-> <<[a |-> -1, b |-> -1], [a |-> 0, b |-> 1], [a |-> 4, b |-> -14]>>],
       [ij |-> 3, is |-> 0, ip |-> -1,
        dlbr |-> <<[a |-> 6, b |-> -3], [a |-> 0, b |-> 0], [a |-> 18, b |-> 35]>>],
       [ij |-> 3, is |-> 0, ip |-> 0,
        dlbr |-> <<[a |-> -1, b |-> -2], [a |-> 0, b |-> 1], [a |-> 13, b |-> 3]>>] >>

\* a[8][3], here aAxis: semi-major axis; the constant in units of 1e-7 AU, the rates in
\* units of 1e-10 AU
aAxis ==
    << <<3870983, 0, 0>>,
       <<7233298, 0, 0>>,
       <<10000010, 0, 0>>,
       <<15236793, 3, 0>>,
       <<52026032, 19132, -39>>,
       <<95549092, -213896, 444>>,
       <<192184461, -3716, 979>>,
       <<301103869, -16635, 686>> >>

\* dkp[8][9]: multipliers of dmu in the arguments of the semi-major-axis terms
dkp ==
    << <<69613, 75645, 88306, 59899, 15746, 71087, 142173, 3086, 0>>,
       <<21863, 32794, 26934, 10931, 26250, 43725, 53867, 28939, 0>>,
       <<16002, 21863, 32004, 10931, 14529, 16368, 15318, 32794, 0>>,
       <<6345, 7818, 15636, 7077, 8184, 14163, 1107, 4872, 0>>,
       <<1760, 1454, 1167, 880, 287, 2640, 19, 2047, 1454>>,
       <<574, 0, 880, 287, 19, 1760, 1167, 306, 574>>,
       <<204, 0, 177, 1265, 4, 385, 200, 208, 204>>,
       <<0, 102, 106, 4, 98, 1367, 487, 204, 0>> >>

\* ca[8][9]: cosine coefficients of the semi-major-axis terms, units of 1e-7 AU
ca ==
    << <<4, -13, 11, -9, -9, -3, -1, 4, 0>>,
       <<-156, 59, -42, 6, 19, -20, -10, -12, 0>>,
       <<64, -152, 62, -8, 32, -41, 19, -11, 0>>,
       <<124, 621, -145, 208, 54, -57, 30, 15, 0>>,
       <<-23437, -2634, 6601, 6259, -1507, -1821, 2620, -2115, -1489>>,
       <<62911, -119919, 79336, 17814, -24241, 12068, 8306, -4893, 8902>>,
       <<389061, -262125, -44088, 8387, -22976, -2093, -615, -9720, 6633>>,
       <<-412235, -157046, -31430, 37817, -9740, -13, -7449, 9644, 0>> >>

\* sa[8][9]: sine coefficients of the semi-major-axis terms, units of 1e-7 AU
sa ==
    << <<-29, -1, 9, 6, -6, 5, 4, 0, 0>>,
       <<-48, -125, -26, -37, 18, -13, -20, -2, 0>>,
       <<-150, -46, 68, 54, 14, 24, -28, 22, 0>>,
       <<-621, 532, -694, -20, 192, -94, 71, -73, 0>>,
       <<-14614, -19828, -5869, 1881, -4372, -2255, 782, 930, 913>>,
       <<139737, 0, 24667, 51123, -5102, 7429, -4095, -1976, -9566>>,
       <<-138081, 0, 37205, -49039, -41901, -33872, -27037, -12474, 18797>>,
       <<0, 28492, 133236, 69654, 52322, -49577, -26430, -3593, 0>> >>

\* amas[]: planetary inverse masses, in tenths
amas == << 60236000, 4085235, 3289005, 30987100, 10474, 34985, 228690, 193140 >>

\* ( 3600.0 * c[0] + ( c[1] + c[2] * t ) * t ) * DAS2R, in units of 1e-4
\* radian, for a row c of dlm, pi, dinc or omega and t in units of 1 / ONE
PlanetAngle(c, t) ==
    MulFix((36 * c[1]) \div 1000 + MulFix(c[2] + MulFix(c[3], t), t), DAS2R)

\* clo[ip][j] * cos_ ( argl ) + slo[ip][j] * sin_ ( argl ), with
\* argl = dkq[ip][j] * dmu; dmu in units of 1e-7 radian, the argument taken
\* to 1e-4 radian and to within one turn before the sine and cosine
PlanetLongitudeTerm(ip, j, dmu) ==
    LET argl == (MulFix(dkq[ip + 1][j + 1] * 10000, dmu) % D2PI) * 1000
    IN  MulFix(clo[ip + 1][j + 1], cos_(argl)) + MulFix(slo[ip + 1][j + 1], sin_(argl))

\* a[ip][0] + ( a[ip][1] + a[ip][2] * t ) * t, in units of 1e-7 AU
PlanetMeanAxis(ip, t) ==
    aAxis[ip + 1][1]
    + ((MulFix(aAxis[ip + 1][2] + MulFix(aAxis[ip + 1][3], t), t) + 500) \div 1000)

\* ca[ip][j] * cos_ ( arga ) + sa[ip][j] * sin_ ( arga ), with
\* arga = dkp[ip][j] * dmu, in units of 1e-7 AU
PlanetAxisTerm(ip, j, dmu) ==
    LET arga == (MulFix(dkp[ip + 1][j + 1] * 10000, dmu) % D2PI) * 1000
    IN  MulFix(ca[ip + 1][j + 1], cos_(arga)) + MulFix(sa[ip + 1][j + 1], sin_(arga))

\* faulty variant: no term is multiplied by t
PlanetAddUnscaled(w, el, j, byt, t, x) ==
    [w EXCEPT ![el] = @ + (IF el = "dl" THEN (x + 500) \div 1000 ELSE x),
              !.applied = Append(@, [el |-> el, j |-> j, byt |-> byt])]

\* da += ( ... ) * 1e-7, dl += ( ... ) * 1e-7 and their forms with t * ( ... ):
\* the element el of w takes the term x, multiplied by t when byt; dl is
\* held to the nearest 1e-4 radian.  applied keeps which term of which
\* element was added, in order.
PlanetAdd(w, el, j, byt, t, x) ==
    [w EXCEPT ![el] = @ + (IF el = "dl"
                           THEN ((IF byt THEN MulFix(t, x) ELSE x) + 500) \div 1000
                           ELSE (IF byt THEN MulFix(t, x) ELSE x)),
              !.applied = Append(@, [el |-> el, j |-> j, byt |-> byt])]

RECURSIVE PlanetTermsLoop(_, _, _, _, _, _)
\* for ( j = 0; j <= 7; j++ ): da and dl take their terms j as they are;
\* for ( j = 8; j <= 9; j++ ): dl takes its term j times t
PlanetTermsLoop(ip, t, dmu, j, last, w) ==
    IF j > last THEN w
    ELSE PlanetTermsLoop(ip, t, dmu, j + 1, last,
             IF last <= 7
             THEN PlanetAdd(PlanetAdd(w, "da", j, FALSE, t, PlanetAxisTerm(ip, j, dmu)),
                            "dl", j, FALSE, t, PlanetLongitudeTerm(ip, j, dmu))
             ELSE PlanetAdd(w, "dl", j, TRUE, t, PlanetLongitudeTerm(ip, j, dmu)))

\* #define GCON 0.01720209895, in units of 1e-9
GCON == 17202099

\* dm = GCON * sqrt_ ( ( 1.0 + 1.0 / amas[ip] ) / ( da * da * da ) ), in units
\* of 1e-9 radian per day; the root is formed as sqrt ( 1 + 1 / amas ) /
\* sqrt ( da ) ^ 3, which keeps seven digits for every body
PlanetDailyMotion(ip, da) ==
    The({ MulFix(GCON, MulFix(sqrt_(ONE + DivFix(10, amas[ip + 1])),
                              MulFix(MulFix(r, r), r))) :
          r \in {DivFix(ONE, SqrtBisect(0, 8 * ONE, da))} })

\* faulty variant: the mean longitude is handed over as accumulated
PlanetLongitudeUnreduced(dl) == dl

\* dl = dmod ( dl, D2PI )
PlanetReduceLongitude(dl) == dmod(dl, D2PI)

\* The mean elements, the trigonometric terms applied to the semi-major axis
\* and to the mean longitude, and the daily motion; unreduced keeps dl and
\* dom as they were before their reduction, the mean semi-major axis, and
\* the terms applied.  The eccentricity is not followed.
PlanetElements(date, ip) ==
    LET t   == Fix(PlanetT(date))
        dpe == dmod(PlanetAngle(pi[ip + 1], t), D2PI)
        di  == PlanetAngle(dinc[ip + 1], t)
        om  == PlanetAngle(omega[ip + 1], t)
        dmu == MulFix(3595362, t)
        w0  == [da |-> PlanetMeanAxis(ip, t), dl |-> PlanetAngle(dlm[ip + 1], t),
                applied |-> <<>>]
        w1  == PlanetTermsLoop(ip, t, dmu, 0, 7, w0)
        w2  == PlanetAdd(w1, "da", 8, TRUE, t, PlanetAxisTerm(ip, 8, dmu))
    IN  The({ [di |-> di, dom |-> dmod(om, D2PI), dpe |-> dpe, da |-> w.da,
               dl |-> PlanetReduceLongitude(w.dl),
               dm |-> PlanetDailyMotion(ip, w.da),
               unreduced |-> [dl |-> w.dl, dom |-> om, da |-> w0.da,
                              applied |-> w.applied]] :
              w \in {PlanetTermsLoop(ip, t, dmu, 8, 9, w2)} })

\* the elements of every body at every date the caller passes, evaluated once
PlanetElementsAt ==
    [a \in PlanetDates \X (0 .. 7) |-> PlanetElements(a[1], a[2])] @@ <<>>

\* no element set: the branches that do not compute one
PlanetNoElements == [dl |-> 0, dom |-> 0, da |-> 0, applied |-> <<>>]

\* The elements-to-state collaborator slaPlanel: it is handed the epoch, the
\* element set and pv, writes pv and reports a status, negative when no
\* solution was obtained.  Which it reports is not decided here: outcome.
slaPlanel(date, jform, epoch, pv, outcome) ==
    [pv |-> [i \in 0 .. 5 |-> PvPlanel], j |-> outcome]

\* the statuses slaPlanel is modelled to report
PlanelOutcomes == {0, -1, -5}

\* faulty variant: a failure of slaPlanel does not replace the date warning
PlanetOverrideKeepsWarning(j1, j) == IF (j < 0) /\ (j1 = 0) THEN -2 ELSE j1

\* if ( j < 0 ) *jstat = -2
PlanetOverride(j1, j) == IF j < 0 THEN -2 ELSE j1

\* faulty variant: a remote epoch returns before the prediction
PlanetMercuryToNeptuneStopOnWarning(date, np, pv, outcome) ==
    LET ip == np - 1
        t  == PlanetT(date)
        j1 == PlanetDateStatus(t)
        r  == slaPlanel(date, 1, date, pv, outcome)
    IN  The({ IF j1 # 0
              THEN [pv |-> pv, jstat |-> j1, jdate |-> j1, planel |-> <<>>,
                    unreduced |-> el.unreduced, terms |-> <<>>]
              ELSE [pv     |-> r.pv,
                    jstat  |-> PlanetOverride(j1, r.j),
                    jdate  |-> j1,
                    planel |-> <<[date |-> date, jform |-> 1, epoch |-> date,
                                  di |-> el.di, dom |-> el.dom, dpe |-> el.dpe,
                                  da |-> el.da, dl |-> el.dl, dm |-> el.dm,
                                  j |-> r.j]>>,
                    unreduced |-> el.unreduced,
                    terms  |-> <<>>] :
              el \in {PlanetElementsAt[<<date, ip>>]} })

\* faulty variant: a prediction that failed is asked for a second time
PlanetMercuryToNeptuneRetry(date, np, pv, outcome) ==
    LET ip == np - 1
        t  == PlanetT(date)
        j1 == PlanetDateStatus(t)
        r  == slaPlanel(date, 1, date, pv, outcome)
    IN  The({ [pv     |-> r.pv,
               jstat  |-> PlanetOverride(j1, r.j),
               jdate  |-> j1,
               planel |-> [k \in 1 .. (IF r.j < 0 THEN 2 ELSE 1) |->
                             [date |-> date, jform |-> 1, epoch |-> date,
                              di |-> el.di, dom |-> el.dom, dpe |-> el.dpe,
                              da |-> el.da, dl |-> el.dl, dm |-> el.dm,
                              j |-> r.j]],
               unreduced |-> el.unreduced,
               terms  |-> <<>>] :
              el \in {PlanetElementsAt[<<date, ip>>]} })

\* Mercury through Neptune: the date test, the elements, the prediction
PlanetMercuryToNeptune(date, np, pv, outcome) ==
    LET ip == np - 1
        t  == PlanetT(date)
        j1 == PlanetDateStatus(t)
        r  == slaPlanel(date, 1, date, pv, outcome)
    IN  The({ [pv     |-> r.pv,
               jstat  |-> PlanetOverride(j1, r.j),
               jdate  |-> j1,
               planel |-> <<[date |-> date, jform |-> 1, epoch |-> date,
                             di |-> el.di, dom |-> el.dom, dpe |-> el.dpe,
                             da |-> el.da, dl |-> el.dl, dm |-> el.dm,
                             j |-> r.j]>>,
               unreduced |-> el.unreduced,
               terms  |-> <<>>] :
              el \in {PlanetElementsAt[<<date, ip>>]} })

\* Pluto's fundamental arguments are held in units of 1e-3 degree.
\* dj0, djd, ds0, dsd, dp0, dpd: mean longitudes and their rates per century
dj0 == 34350
djd == 3034906
ds0 == 50080
dsd == 1222114
dp0 == 238960
dpd == 144960

\* sizeof term / sizeof term[0]
PlutoTermCount == Len(term)

\* al = wj * dj + ws * ds + wp * dp for row j of term, in units of 1e-7
\* radian and within one turn
PlutoArgument(j, t) ==
    LET dj == dj0 + MulFix(djd, t)
        ds == ds0 + MulFix(dsd, t)
        dp == dp0 + MulFix(dpd, t)
        al == term[j + 1].ij * dj + term[j + 1].is * ds + term[j + 1].ip * dp
    IN  MulFix((al % 360000) * 100, DD2R)

\* one pass of the loop, for row j of term: the argument, its sine and
\* cosine, and the three sums
PlutoTerm(t, j, w) ==
    LET al  == PlutoArgument(j, t)
        sal == sin_(al)
        cal == cos_(al)
    IN  [wlbr  |-> [i \in 0 .. 2 |->
                      w.wlbr[i] + MulFix(term[j + 1].dlbr[i + 1].a, sal)
                                + MulFix(term[j + 1].dlbr[i + 1].b, cal)],
         terms |-> Append(w.terms, j)]

RECURSIVE PlutoSeriesRemoteCut(_, _, _)
\* faulty variant: past the year 2100 the loop stops after its first pass
PlutoSeriesRemoteCut(t, j, w) ==
    IF (j >= PlutoTermCount) \/ ((t > ONE) /\ (j >= 1)) THEN w
    ELSE PlutoSeriesRemoteCut(t, j + 1, PlutoTerm(t, j, w))

RECURSIVE PlutoSeries(_, _, _)
\* for ( j = 0; j < sizeof term / sizeof term[0]; j++ ): the sums wlbr of
\* the periodic terms in longitude, latitude and radius vector, and the
\* rows of term evaluated, in order
PlutoSeries(t, j, w) ==
    IF j >= PlutoTermCount THEN w
    ELSE PlutoSeries(t, j + 1, PlutoTerm(t, j, w))

\* wlbr[i] = 0.0 for i = 0 .. 2, then the series
PlutoSums(date) ==
    PlutoSeries(Fix(PlutoT(date)), 0, [wlbr |-> [i \in 0 .. 2 |-> 0], terms |-> <<>>])

\* the sums at every date the caller passes, evaluated once
PlutoSumsAt == [d \in PlanetDates |-> PlutoSums(d)] @@ <<>>

\* faulty variant: a remote epoch returns before the series
PlanetPlutoStopOnRemote(date, pv) ==
    LET t  == PlutoT(date)
        j1 == PlutoDateStatus(t)
        w  == PlutoSumsAt[date]
    IN  IF j1 # 0
        THEN [pv |-> pv, jstat |-> j1, jdate |-> j1, planel |-> <<>>,
              unreduced |-> PlanetNoElements, terms |-> <<>>]
        ELSE [pv     |-> [i \in 0 .. 5 |-> PvPluto],
              jstat  |-> j1,
              jdate  |-> j1,
              planel |-> <<>>,
              unreduced |-> PlanetNoElements,
              terms  |-> w.terms]

\* Pluto: the date test, the series, the transformation to the J2000 equator
PlanetPluto(date, pv) ==
    LET t  == PlutoT(date)
        j1 == PlutoDateStatus(t)
        w  == PlutoSumsAt[date]
    IN  [pv     |-> [i \in 0 .. 5 |-> PvPluto],
         jstat  |-> j1,
         jdate  |-> j1,
         planel |-> <<>>,
         unreduced |-> PlanetNoElements,
         terms  |-> w.terms]

\* the whole routine; pv is the caller's buffer on entry and outcome the
\* status slaPlanel reports if it is called
slaPlanet(date, np, pv, outcome) ==
    IF PlanetNpIllegal(np)
    THEN [pv |-> PlanetZeroPv(pv), jstat |-> -1, jdate |-> -1, planel |-> <<>>,
          unreduced |-> PlanetNoElements, terms |-> <<>>]
    ELSE IF np # 9
         THEN PlanetMercuryToNeptune(date, np, pv, outcome)
         ELSE PlanetPluto(date, pv)

PlanetInit ==
    planet = [called |-> FALSE, date |-> DJ2000, np |-> 1,
              pvIn |-> [i \in 0 .. 5 |-> PvUnset],
              pv |-> [i \in 0 .. 5 |-> PvUnset],
              jstat |-> 0, jdate |-> 0, planel |-> <<>>,
              unreduced |-> PlanetNoElements, terms |-> <<>>]

PlanetCall ==
    /\ UNCHANGED <<dtf, s2tp, av2m, nutc, nterms, hist, thr, frames, trk>>
    /\ \E date \in PlanetDates, np \in PlanetBodies, outcome \in PlanelOutcomes :
       \E r \in {slaPlanet(date, np, planet.pv, outcome)} :
            planet' = [called |-> TRUE, date |-> date, np |-> np,
                       pvIn |-> planet.pv, pv |-> r.pv, jstat |-> r.jstat,
                       jdate |-> r.jdate, planel |-> r.planel,
                       unreduced |-> r.unreduced, terms |-> r.terms]

(***************************************************************************)
(* slaAv2m: rotation matrix from an axial vector.                          *)
(***************************************************************************)
\* faulty variant: the components are divided by phi whatever its value (a
\* quotient by zero is left as the dividend)
Av2mNormaliseAlways(x, y, z, phi) ==
    [x |-> IF phi # 0 THEN DivFix(x, phi) ELSE x,
     y |-> IF phi # 0 THEN DivFix(y, phi) ELSE y,
     z |-> IF phi # 0 THEN DivFix(z, phi) ELSE z,
     divisors |-> <<phi, phi, phi>>]

\* if ( phi != 0.0 ) { x = x / phi; y = y / phi; z = z / phi; }
Av2mNormalise(x, y, z, phi) ==
    IF phi # 0
    THEN [x |-> DivFix(x, phi), y |-> DivFix(y, phi), z |-> DivFix(z, phi),
          divisors |-> <<phi, phi, phi>>]
    ELSE [x |-> x, y |-> y, z |-> z, divisors |-> <<>>]

\* faulty variant: the sine term of rmat[0][1] has the sign of rmat[1][0]
Av2mMatrixSignSlip(x, y, z, s, c, w) ==
    << << MulFix(MulFix(x, x), w) + c,
          MulFix(MulFix(x, y), w) - MulFix(z, s),
          MulFix(MulFix(x, z), w) - MulFix(y, s) >>,
       << MulFix(MulFix(x, y), w) - MulFix(z, s),
          MulFix(MulFix(y, y), w) + c,
          MulFix(MulFix(y, z), w) + MulFix(x, s) >>,
       << MulFix(MulFix(x, z), w) + MulFix(y, s),
          MulFix(MulFix(y, z), w) - MulFix(x, s),
          MulFix(MulFix(z, z), w) + c >> >>

\* rmat[0][0] = x * x * w + c ... rmat[2][2] = z * z * w + c; row i of rmat
\* is element i + 1 of the result
Av2mMatrix(x, y, z, s, c, w) ==
    << << MulFix(MulFix(x, x), w) + c,
          MulFix(MulFix(x, y), w) + MulFix(z, s),
          MulFix(MulFix(x, z), w) - MulFix(y, s) >>,
       << MulFix(MulFix(x, y), w) - MulFix(z, s),
          MulFix(MulFix(y, y), w) + c,
          MulFix(MulFix(y, z), w) + MulFix(x, s) >>,
       << MulFix(MulFix(x, z), w) + MulFix(y, s),
          MulFix(MulFix(y, z), w) - MulFix(x, s),
          MulFix(MulFix(z, z), w) + c >> >>

\* the whole routine; axvec and rmat in units of 1 / ONE
slaAv2m(axvec) ==
    LET x   == axvec[1]
        y   == axvec[2]
        z   == axvec[3]
        phi == sqrt_(MulFix(x, x) + MulFix(y, y) + MulFix(z, z))
        s   == sin_(phi)
        c   == cos_(phi)
        w   == ONE - c
        n   == Av2mNormalise(x, y, z, phi)
    IN  [rmat |-> Av2mMatrix(n.x, n.y, n.z, s, c, w),
         phi |-> phi, axis |-> <<n.x, n.y, n.z>>, divisors |-> n.divisors]

\* the components the caller is modelled to pass: 0, 30 and 90 degrees, and
\* one and two radians of either sign
Av2mComponents == {-2 * ONE, -ONE, 0, 5235988, ONE, QuarterTurn, 2 * ONE}
Av2mVectors == Av2mComponents \X Av2mComponents \X Av2mComponents

\* the routine at every vector the caller passes, evaluated once
Av2mAt == [v \in Av2mVectors |-> slaAv2m(v)] @@ <<>>

Av2mInit ==
    av2m = [called |-> FALSE, axvec |-> <<0, 0, 0>>,
            rmat |-> <<<<0, 0, 0>>, <<0, 0, 0>>, <<0, 0, 0>>>>,
            phi |-> 0, axis |-> <<0, 0, 0>>, divisors |-> <<>>]

Av2mCall ==
    /\ UNCHANGED <<dtf, s2tp, planet, nutc, nterms, hist, thr, frames, trk>>
    /\ \E v \in Av2mVectors :
       \E r \in {Av2mAt[v]} :
            av2m' = [called |-> TRUE, axvec |-> v, rmat |-> r.rmat,
                     phi |-> r.phi, axis |-> r.axis, divisors |-> r.divisors]

(***************************************************************************)
(* slaNutc: nutation in longitude and obliquity, and the mean obliquity.   *)
(* Dates are in hundredths of a day, the fundamental angles in units of    *)
(* 10 arcseconds, dp and de in units of 0.1 microarcsecond, *dpsi and      *)
(* *deps in units of 1e-13 radian, *eps0 in units of 1e-7 radian.          *)
(***************************************************************************)
\* #define TURNAS 1296000.0
TURNAS == 129600

\* #define DJM0 51544.5
DJM0 == 5154450

\* #define DJC 36525.0
DJC == 3652500

\* na[][9]: the multiples of the nine fundamental angles in the argument of
\* each term
na ==
    << <<0, 0, 0, 0, -1, 0, 0, 0, 0>>, <<0, 0, 2, -2, 2, 0, 0, 0, 0>>,
       <<0, 0, 2, 0, 2, 0, 0, 0, 0>>, <<0, 0, 0, 0, -2, 0, 0, 0, 0>>,
       <<0, 1, 0, 0, 0, 0, 0, 0, 0>>, <<0, 1, 2, -2, 2, 0, 0, 0, 0>>,
       <<1, 0, 0, 0, 0, 0, 0, 0, 0>>, <<0, 0, 2, 0, 1, 0, 0, 0, 0>>,
       <<1, 0, 2, 0, 2, 0, 0, 0, 0>>, <<0, -1, 2, -2, 2, 0, 0, 0, 0>>,
       <<0, 0, 2, -2, 1, 0, 0, 0, 0>>, <<-1, 0, 2, 0, 2, 0, 0, 0, 0>>,
       <<-1, 0, 0, 2, 0, 0, 0, 0, 0>>, <<1, 0, 0, 0, 1, 0, 0, 0, 0>>,
       <<1, 0, 0, 0, -1, 0, 0, 0, 0>>, <<-1, 0, 2, 2, 2, 0, 0, 0, 0>>,
       <<1, 0, 2, 0, 1, 0, 0, 0, 0>>, <<-2, 0, 2, 0, 1, 0, 0, 0, 0>>,
       <<0, 0, 0, 2, 0, 0, 0, 0, 0>>, <<0, 0, 2, 2, 2, 0, 0, 0, 0>>,
       <<2, 0, 0, -2, 0, 0, 0, 0, 0>>, <<2, 0, 2, 0, 2, 0, 0, 0, 0>>,
       <<1, 0, 2, -2, 2, 0, 0, 0, 0>>, <<-1, 0, 2, 0, 1, 0, 0, 0, 0>>,
       <<2, 0, 0, 0, 0, 0, 0, 0, 0>>, <<0, 0, 2, 0, 0, 0, 0, 0, 0>>,
       <<0, 1, 0, 0, 1, 0, 0, 0, 0>>, <<-1, 0, 0, 2, 1, 0, 0, 0, 0>>,
       <<0, 2, 2, -2, 2, 0, 0, 0, 0>>, <<0, 0, 2, -2, 0, 0, 0, 0, 0>>,
       <<-1, 0, 0, 2, -1, 0, 0, 0, 0>>, <<0, 1, 0, 0, -1, 0, 0, 0, 0>>,
       <<0, 2, 0, 0, 0, 0, 0, 0, 0>>, <<-1, 0, 2, 2, 1, 0, 0, 0, 0>>,
       <<1, 0, 2, 2, 2, 0, 0, 0, 0>>, <<0, 1, 2, 0, 2, 0, 0, 0, 0>>,
       <<-2, 0, 2, 0, 0, 0, 0, 0, 0>>, <<0, 0, 2, 2, 1, 0, 0, 0, 0>>,
       <<0, -1, 2, 0, 2, 0, 0, 0, 0>>, <<0, 0, 0, 2, 1, 0, 0, 0, 0>>,
       <<1, 0, 2, -2, 1, 0, 0, 0, 0>>, <<2, 0, 0, -2, -1, 0, 0, 0, 0>>,
       <<2, 0, 2, -2, 2, 0, 0, 0, 0>>, <<2, 0, 2, 0, 1, 0, 0, 0, 0>>,
       <<0, 0, 0, 2, -1, 0, 0, 0, 0>>, <<0, -1, 2, -2, 1, 0, 0, 0, 0>>,
       <<-1, -1, 0, 2, 0, 0, 0, 0, 0>>, <<2, 0, 0, -2, 1, 0, 0, 0, 0>>,
       <<1, 0, 0, 2, 0, 0, 0, 0, 0>>, <<0, 1, 2, -2, 1, 0, 0, 0, 0>>,
       <<1, -1, 0, 0, 0, 0, 0, 0, 0>>, <<-2, 0, 2, 0, 2, 0, 0, 0, 0>>,
       <<0, -1, 0, 2, 0, 0, 0, 0, 0>>, <<3, 0, 2, 0, 2, 0, 0, 0, 0>>,
       <<0, 0, 0, 1, 0, 0, 0, 0, 0>>, <<1, -1, 2, 0, 2, 0, 0, 0, 0>>,
       <<1, 0, 0, -1, 0, 0, 0, 0, 0>>, <<-1, -1, 2, 2, 2, 0, 0, 0, 0>>,
       <<-1, 0, 2, 0, 0, 0, 0, 0, 0>>, <<2, 0, 0, 0, -1, 0, 0, 0, 0>>,
       <<0, -1, 2, 2, 2, 0, 0, 0, 0>>, <<1, 1, 2, 0, 2, 0, 0, 0, 0>>,
       <<2, 0, 0, 0, 1, 0, 0, 0, 0>>, <<1, 1, 0, 0, 0, 0, 0, 0, 0>>,
       <<1, 0, -2, 2, -1, 0, 0, 0, 0>>, <<1, 0, 2, 0, 0, 0, 0, 0, 0>>,
       <<-1, 1, 0, 1, 0, 0, 0, 0, 0>>, <<1, 0, 0, 0, 2, 0, 0, 0, 0>>,
       <<-1, 0, 1, 0, 1, 0, 0, 0, 0>>, <<0, 0, 2, 1, 2, 0, 0, 0, 0>>,
       <<-1, 1, 0, 1, 1, 0, 0, 0, 0>>, <<-1, 0, 2, 4, 2, 0, 0, 0, 0>>,
       <<0, -2, 2, -2, 1, 0, 0, 0, 0>>, <<1, 0, 2, 2, 1, 0, 0, 0, 0>>,
       <<1, 0, 0, 0, -2, 0, 0, 0, 0>>, <<-2, 0, 2, 2, 2, 0, 0, 0, 0>>,
       <<1, 1, 2, -2, 2, 0, 0, 0, 0>>, <<-2, 0, 2, 4, 2, 0, 0, 0, 0>>,
       <<-1, 0, 4, 0, 2, 0, 0, 0, 0>>, <<2, 0, 2, -2, 1, 0, 0, 0, 0>>,
       <<1, 0, 0, -1, -1, 0, 0, 0, 0>>, <<2, 0, 2, 2, 2, 0, 0, 0, 0>>,
       <<1, 0, 0, 2, 1, 0, 0, 0, 0>>, <<3, 0, 0, 0, 0, 0, 0, 0, 0>>,
       <<0, 0, 2, -2, -1, 0, 0, 0, 0>>, <<3, 0, 2, -2, 2, 0, 0, 0, 0>>,
       <<0, 0, 4, -2, 2, 0, 0, 0, 0>>, <<-1, 0, 0, 4, 0, 0, 0, 0, 0>>,
       <<0, 1, 2, 0, 1, 0, 0, 0, 0>>, <<0, 0, 2, -2, 3, 0, 0, 0, 0>>,
       <<-2, 0, 0, 4, 0, 0, 0, 0, 0>>, <<-1, -1, 0, 2, 1, 0, 0, 0, 0>>,
       <<-2, 0, 2, 0, -1, 0, 0, 0, 0>>, <<0, 0, 2, 0, -1, 0, 0, 0, 0>>,
       <<0, -1, 2, 0, 1, 0, 0, 0, 0>>, <<0, 1, 0, 0, 2, 0, 0, 0, 0>>,
       <<0, 0, 2, -1, 2, 0, 0, 0, 0>>, <<2, 1, 0, -2, 0, 0, 0, 0, 0>>,
       <<0, 0, 2, 4, 2, 0, 0, 0, 0>>, <<-1, -1, 0, 2, -1, 0, 0, 0, 0>>,
       <<-1, 1, 0, 2, 0, 0, 0, 0, 0>>, <<1, -1, 0, 0, 1, 0, 0, 0, 0>>,
       <<0, -1, 2, -2, 0, 0, 0, 0, 0>>, <<0, 1, 0, 0, -2, 0, 0, 0, 0>>,
       <<1, -1, 2, 2, 2, 0, 0, 0, 0>>, <<1, 0, 0, 2, -1, 0, 0, 0, 0>>,
       <<-1, 1, 2, 2, 2, 0, 0, 0, 0>>, <<3, 0, 2, 0, 1, 0, 0, 0, 0>>,
       <<0, 1, 2, 2, 2, 0, 0, 0, 0>>, <<1, 0, 2, -2, 0, 0, 0, 0, 0>>,
       <<-1, 0, -2, 4, -1, 0, 0, 0, 0>>, <<-1, -1, 2, 2, 1, 0, 0, 0, 0>>,
       <<0, -1, 2, 2, 1, 0, 0, 0, 0>>, <<2, -1, 2, 0, 2, 0, 0, 0, 0>>,
       <<0, 0, 0, 2, 2, 0, 0, 0, 0>>, <<1, -1, 2, 0, 1, 0, 0, 0, 0>>,
       <<-1, 1, 2, 0, 2, 0, 0, 0, 0>>, <<0, 1, 0, 2, 0, 0, 0, 0, 0>>,
       <<0, 1, 2, -2, 0, 0, 0, 0, 0>>, <<0, 3, 2, -2, 2, 0, 0, 0, 0>>,
       <<0, 0, 0, 1, 1, 0, 0, 0, 0>>, <<-1, 0, 2, 2, 0, 0, 0, 0, 0>>,
       <<2, 1, 2, 0, 2, 0, 0, 0, 0>>, <<1, 1, 0, 0, 1, 0, 0, 0, 0>>,
       <<2, 0, 0, 2, 0, 0, 0, 0, 0>>, <<1, 1, 2, 0, 1, 0, 0, 0, 0>>,
       <<-1, 0, 0, 2, 2, 0, 0, 0, 0>>, <<1, 0, -2, 2, 0, 0, 0, 0, 0>>,
       <<0, -1, 0, 2, -1, 0, 0, 0, 0>>, <<-1, 0, 1, 0, 2, 0, 0, 0, 0>>,
       <<0, 1, 0, 1, 0, 0, 0, 0, 0>>, <<1, 0, -2, 2, -2, 0, 0, 0, 0>>,
       <<0, 0, 0, 1, -1, 0, 0, 0, 0>>, <<1, -1, 0, 0, -1, 0, 0, 0, 0>>,
       <<0, 0, 0, 4, 0, 0, 0, 0, 0>>, <<1, -1, 0, 2, 0, 0, 0, 0, 0>>,
       <<1, 0, 2, 1, 2, 0, 0, 0, 0>>, <<1, 0, 2, -1, 2, 0, 0, 0, 0>>,
       <<-1, 0, 0, 2, -2, 0, 0, 0, 0>>, <<0, 0, 2, 1, 1, 0, 0, 0, 0>>,
       <<-1, 0, 2, 0, -1, 0, 0, 0, 0>>, <<-1, 0, 2, 4, 1, 0, 0, 0, 0>>,
       <<0, 0, 2, 2, 0, 0, 0, 0, 0>>, <<1, 1, 2, -2, 1, 0, 0, 0, 0>>,
       <<0, 0, 1, 0, 1, 0, 0, 0, 0>>, <<-1, 0, 2, -1, 1, 0, 0, 0, 0>>,
       <<-2, 0, 2, 2, 1, 0, 0, 0, 0>>, <<2, -1, 0, 0, 0, 0, 0, 0, 0>>,
       <<4, 0, 2, 0, 2, 0, 0, 0, 0>>, <<2, 1, 2, -2, 2, 0, 0, 0, 0>>,
       <<0, 1, 2, 1, 2, 0, 0, 0, 0>>, <<1, 0, 4, -2, 2, 0, 0, 0, 0>>,
       <<1, 1, 0, 0, -1, 0, 0, 0, 0>>, <<-2, 0, 2, 4, 1, 0, 0, 0, 0>>,
       <<2, 0, 2, 0, 0, 0, 0, 0, 0>>, <<-1, 0, 1, 0, 0, 0, 0, 0, 0>>,
       <<1, 0, 0, 1, 0, 0, 0, 0, 0>>, <<0, 1, 0, 2, 1, 0, 0, 0, 0>>,
       <<-1, 0, 4, 0, 1, 0, 0, 0, 0>>, <<-1, 0, 0, 4, 1, 0, 0, 0, 0>>,
       <<2, 0, 2, 2, 1, 0, 0, 0, 0>>, <<2, 1, 0, 0, 0, 0, 0, 0, 0>>,
       <<0, 0, 5, -5, 5, -3, 0, 0, 0>>, <<0, 0, 0, 0, 0, 0, 0, 2, 0>>,
       <<0, 0, 1, -1, 1, 0, 0, -1, 0>>, <<0, 0, -1, 1, -1, 1, 0, 0, 0>>,
       <<0, 0, -1, 1, 0, 0, 2, 0, 0>>, <<0, 0, 3, -3, 3, 0, 0, -1, 0>>,
       <<0, 0, -8, 8, -7, 5, 0, 0, 0>>, <<0, 0, -1, 1, -1, 0, 2, 0, 0>>,
       <<0, 0, -2, 2, -2, 2, 0, 0, 0>>, <<0, 0, -6, 6, -6, 4, 0, 0, 0>>,
       <<0, 0, -2, 2, -2, 0, 8, -3, 0>>, <<0, 0, 6, -6, 6, 0, -8, 3, 0>>,
       <<0, 0, 4, -4, 4, -2, 0, 0, 0>>, <<0, 0, -3, 3, -3, 2, 0, 0, 0>>,
       <<0, 0, 4, -4, 3, 0, -8, 3, 0>>, <<0, 0, -4, 4, -5, 0, 8, -3, 0>>,
       <<0, 0, 0, 0, 0, 2, 0, 0, 0>>, <<0, 0, -4, 4, -4, 3, 0, 0, 0>>,
       <<0, 1, -1, 1, -1, 0, 0, 1, 0>>, <<0, 0, 0, 0, 0, 0, 0, 1, 0>>,
       <<0, 0, 1, -1, 1, 1, 0, 0, 0>>, <<0, 0, 2, -2, 2, 0, -2, 0, 0>>,
       <<0, -1, -7, 7, -7, 5, 0, 0, 0>>, <<-2, 0, 2, 0, 2, 0, 0, -2, 0>>,
       <<-2, 0, 2, 0, 1, 0, 0, -3, 0>>, <<0, 0, 2, -2, 2, 0, 0, -2, 0>>,
       <<0, 0, 1, -1, 1, 0, 0, 1, 0>>, <<0, 0, 0, 0, 0, 0, 0, 0, 2>>,
       <<0, 0, 0, 0, 0, 0, 0, 0, 1>>, <<2, 0, -2, 0, -2, 0, 0, 3, 0>>,
       <<0, 0, 1, -1, 1, 0, 0, -2, 0>>, <<0, 0, -7, 7, -7, 5, 0, 0, 0>> >>

\* psi[][4]: the coefficients of the series in longitude, in units of 0.1
\* microarcsecond
psi ==
    << <<33415, 172062418, 31, 174095>>, <<-17168, -13171853, 14, -1568>>, <<2857, -2276670, 3, -235>>,
       <<-686, -2074480, 0, -214>>, <<9503, 1476079, -23, -3550>>, <<-667, -516891, 2, 1226>>,
       <<-1086, 711176, 0, 70>>, <<356, -387402, 1, -362>>, <<854, -301276, 0, -31>>,
       <<90, 215830, 1, -503>>, <<221, 128228, 0, 133>>, <<34, 123508, 0, 13>>,
       <<-211, 156994, 0, 16>>, <<42, 63138, 0, 62>>, <<-228, 57969, 0, 61>>,
       <<157, -59611, 0, -6>>, <<131, -51591, 0, -46>>, <<18, 45927, 0, 45>>,
       <<-175, 63360, 0, 7>>, <<163, -38511, 0, -4>>, <<-28, 47717, 0, 5>>,
       <<138, -30993, 0, -3>>, <<2, 28603, 0, 3>>, <<14, 20453, 0, 20>>,
       <<-86, 29226, 0, 3>>, <<-77, 25879, 0, 2>>, <<88, -14081, 0, 37>>,
       <<14, 15175, 0, 15>>, <<-19, -15797, 0, 77>>, <<13, -21786, 0, -2>>,
       <<-48, 12868, 0, 13>>, <<63, 12672, 0, -40>>, <<-10, 16693, 0, -83>>,
       <<24, -10200, 0, -9>>, <<45, -7669, 0, 0>>, <<-11, 7565, 0, -17>>,
       <<-14, -10973, 0, -5>>, <<26, -6630, 0, -6>>, <<8, -7141, 0, 16>>,
       <<4, -6299, 0, -6>>, <<3, 5804, 0, 6>>, <<-16, 5773, 0, 5>>,
       <<-9, 6444, 0, 0>>, <<22, -5340, 0, -5>>, <<-25, 4933, 0, 5>>,
       <<-1, -4773, 0, -24>>, <<-9, 7350, 0, -17>>, <<7, 4062, 0, 4>>,
       <<-28, 6569, 0, 0>>, <<6, 3580, 0, 20>>, <<-7, 4725, 0, -11>>,
       <<-1, -3005, 0, 0>>, <<-12, 4351, 0, -10>>, <<18, -2894, 0, 0>>,
       <<6, -4226, 0, 0>>, <<8, -2876, 0, 6>>, <<-386, -3923, 0, 0>>,
       <<7, -2818, 0, 6>>, <<6, -4057, 0, 0>>, <<-12, 2290, 0, 2>>,
       <<11, -2643, 0, 5>>, <<-7, 2479, 0, -5>>, <<-2, 2180, 0, 2>>,
       <<6, -3390, 0, 8>>, <<-7, 1987, 0, 2>>, <<-15, 3340, 0, 0>>,
       <<1, 3340, 0, 0>>, <<-1, -1981, 0, 0>>, <<-1066, 0, 0, 0>>,
       <<-5, 1658, 0, 0>>, <<0, 1348, 0, 0>>, <<9, -1516, 0, 0>>,
       <<0, -1297, 0, 0>>, <<8, -1328, 0, -1>>, <<5, -1407, 0, 0>>,
       <<-1, 1384, 0, 0>>, <<0, 1290, 0, -3>>, <<5, -1212, 0, 0>>,
       <<-3, 1145, 0, 0>>, <<-1, 1018, 0, 0>>, <<-36, -1019, 0, 0>>,
       <<8, -1094, 0, 0>>, <<2, -970, 0, 0>>, <<-7, 1573, 0, 0>>,
       <<2, -833, 0, 0>>, <<-3, 933, 0, 0>>, <<-1, 921, 0, 0>>,
       <<-5, 1336, 0, 0>>, <<-1, 815, 0, 0>>, <<0, 1239, 0, 0>>,
       <<-3, 1281, 0, 0>>, <<1, 741, 0, -3>>, <<-2, -703, 0, 0>>,
       <<-4, 666, 0, 0>>, <<1, -667, 0, 0>>, <<-7, 693, 0, -3>>,
       <<0, -704, 0, 0>>, <<-1, 1015, 0, 0>>, <<5, -691, 0, 0>>,
       <<-2, 585, 0, 2>>, <<1, -949, 0, 2>>, <<0, 529, 0, -2>>,
       <<1, 867, 0, -2>>, <<-1, -592, 0, 2>>, <<3, -588, 0, 1>>,
       <<-3, 490, 0, 0>>, <<-2, 569, 0, -1>>, <<3, -502, 0, 0>>,
       <<-2, 534, 0, -1>>, <<1, -765, 0, 0>>, <<-2, 453, 0, 0>>,
       <<1, -468, 0, 0>>, <<2, -446, 0, 0>>, <<2, -487, 0, 0>>,
       <<1, -468, 0, 0>>, <<1, -420, 0, 0>>, <<0, 464, 0, -1>>,
       <<2, -673, 0, 1>>, <<0, -658, 0, 2>>, <<-1, -439, 0, 3>>,
       <<0, -389, 0, 0>>, <<-3, 639, 0, 0>>, <<-2, 412, 0, 0>>,
       <<0, -361, 0, 2>>, <<-3, 585, 0, 0>>, <<-1, 361, 0, 0>>,
       <<0, -397, 0, 0>>, <<1, -577, 0, 0>>, <<-2, 334, 0, 0>>,
       <<364, 0, 0, 0>>, <<-1, 557, 0, -1>>, <<1, -354, 0, 0>>,
       <<1, -310, 0, 0>>, <<-1, 301, 0, 0>>, <<-3, 492, 0, 0>>,
       <<-2, 491, 0, 0>>, <<-1, 336, 0, 0>>, <<1, -335, 0, 0>>,
       <<1, -310, 0, 0>>, <<-1, 280, 0, 0>>, <<1, -252, 0, 0>>,
       <<1, -262, 0, 0>>, <<-2, 415, 0, 0>>, <<0, 245, 0, 1>>,
       <<-162, 0, 0, 0>>, <<0, -223, 0, 0>>, <<0, 231, 0, 0>>,
       <<-1, 375, 0, 0>>, <<2, -257, 0, 0>>, <<0, 252, 0, 0>>,
       <<1, -245, 0, 0>>, <<-1, 243, 0, 0>>, <<1, -207, 0, 0>>,
       <<1, -208, 0, 0>>, <<-2, 334, 0, 0>>, <<329, 0, 0, 0>>,
       <<1, -326, 0, 0>>, <<0, 199, 0, 0>>, <<-1, 196, 0, 0>>,
       <<0, -187, 0, 0>>, <<1, -190, 0, 0>>, <<1, -286, 0, 0>>,
       <<40, 1788, -118, 3>>, <<398, -1073, -56, -10>>, <<99, 1640, -41, 1>>,
       <<-48, -1353, -34, -1>>, <<505, 750, 14, -12>>, <<-11, -535, 13, 0>>,
       <<-450, -24, -4, 66>>, <<-115, -610, -9, 4>>, <<44, -684, -34, 0>>,
       <<77, -471, -47, -10>>, <<-429, -126, -12, 42>>, <<-428, 127, -12, -42>>,
       <<-76, -441, 21, -5>>, <<-641, 17, 2, 45>>, <<364, -104, 10, 35>>,
       <<356, 102, 10, -35>>, <<-17, 395, 20, 0>>, <<509, -82, -8, -50>>,
       <<0, 523, 12, 0>>, <<-429, -178, 4, 0>>, <<26, 343, 8, 0>>,
       <<-8, -486, 24, -1>>, <<-49, 305, 37, 7>>, <<0, -436, 21, 0>>,
       <<0, -254, 12, 0>>, <<20, 409, -20, 0>>, <<-21, 261, 6, 0>>,
       <<226, -32, -5, -5>>, <<-76, 249, -4, -2>>, <<-62, 349, 17, 3>>,
       <<20, 174, -4, 1>>, <<-39, 205, 24, 6>> >>

\* eps[][4]: the coefficients of the series in obliquity, in units of 0.1
\* microarcsecond
eps ==
    << <<92053658, -15062, 8857, -2>>, <<5730959, -5702, -3050, -3>>, <<978455, 1478, -488, -2>>,
       <<-897536, 280, 469, 0>>, <<74067, -3271, -182, 8>>, <<224423, -223, -676, 0>>,
       <<-6836, 468, 0, 0>>, <<200707, 360, 16, 0>>, <<128938, 395, -62, 0>>,
       <<-95932, 144, 302, -1>>, <<-68995, 48, -6, 0>>, <<-53325, -1, 27, 0>>,
       <<-1252, 105, 0, 0>>, <<-33234, -9, -3, 0>>, <<31423, 89, 3, 0>>,
       <<25525, 73, -12, 0>>, <<26344, 88, 2, 0>>, <<-24244, 16, -4, 0>>,
       <<-1233, 39, 0, 0>>, <<16424, 73, -8, 0>>, <<479, 32, 0, 0>>,
       <<13212, 62, -6, 0>>, <<-12341, -3, 6, 0>>, <<-10765, -3, 0, 0>>,
       <<-616, 18, 0, 0>>, <<-554, 16, 0, 0>>, <<8569, -49, -21, 0>>,
       <<-8007, -1, 0, 0>>, <<6851, -6, -38, 0>>, <<-169, -15, 0, 0>>,
       <<6957, 18, 0, 0>>, <<6422, -26, -16, 0>>, <<133, 11, -1, 0>>,
       <<5219, 16, 0, 0>>, <<3258, 20, -1, 0>>, <<-3251, -5, 9, 0>>,
       <<101, 3, 0, 0>>, <<3345, 16, 0, 0>>, <<3071, 4, -9, 0>>,
       <<3272, 5, 0, 0>>, <<-3046, -1, 0, 0>>, <<3040, 6, 0, 0>>,
       <<-2768, -5, 1, 0>>, <<2689, 13, 0, 0>>, <<2718, 11, 0, 0>>,
       <<2715, -4, -8, 0>>, <<-52, 5, 0, 0>>, <<-2205, 1, 0, 0>>,
       <<-201, 3, 0, 0>>, <<-1910, 1, 5, 0>>, <<-41, 3, 0, 0>>,
       <<1306, -1, 0, 0>>, <<30, 3, 0, 0>>, <<1229, 8, 0, 0>>,
       <<37, -3, 0, 0>>, <<1231, 4, -3, 0>>, <<-527, 153, 0, 0>>,
       <<1207, 3, -3, 0>>, <<40, -3, 0, 0>>, <<1265, 5, 0, 0>>,
       <<1127, 5, -3, 0>>, <<-1061, -3, 3, 0>>, <<-1129, -2, 0, 0>>,
       <<36, -2, 0, 0>>, <<1074, 3, 0, 0>>, <<-109, 2, 0, 0>>,
       <<-9, 0, 0, 0>>, <<854, 0, 0, 0>>, <<0, -888, 0, 0>>,
       <<-710, -2, 0, 0>>, <<-703, 0, 0, 0>>, <<645, 4, 0, 0>>,
       <<698, 0, 0, 0>>, <<661, 4, 0, 0>>, <<-610, -2, 0, 0>>,
       <<-595, -1, 0, 0>>, <<-556, 0, 2, 0>>, <<517, 2, 0, 0>>,
       <<-490, -1, 0, 0>>, <<-527, -1, 0, 0>>, <<-496, 14, 0, 0>>,
       <<463, 4, 0, 0>>, <<496, 1, 0, 0>>, <<-51, 1, 0, 0>>,
       <<-440, -1, 0, 0>>, <<-399, -1, 0, 0>>, <<-395, -1, 0, 0>>,
       <<-39, 1, 0, 0>>, <<-421, -1, 0, 0>>, <<-172, 1, 0, 0>>,
       <<-23, 1, 0, 0>>, <<-392, 0, 0, 0>>, <<-384, 1, 0, 0>>,
       <<368, 2, 0, 0>>, <<346, 1, 0, 0>>, <<-327, 3, 0, 0>>,
       <<304, 0, 0, 0>>, <<4, 1, 0, 0>>, <<293, 2, 0, 0>>,
       <<316, 1, 0, 0>>, <<8, -1, 0, 0>>, <<-279, 0, 0, 0>>,
       <<29, 0, 0, 0>>, <<-253, 0, 0, 0>>, <<250, 1, 0, 0>>,
       <<275, 1, 0, 0>>, <<-244, -1, 0, 0>>, <<249, 2, 0, 0>>,
       <<-228, -1, 0, 0>>, <<9, -1, 0, 0>>, <<244, 1, 0, 0>>,
       <<239, 1, 0, 0>>, <<225, 1, 0, 0>>, <<208, 1, 0, 0>>,
       <<201, 0, 0, 0>>, <<215, 1, 0, 0>>, <<-200, 0, 0, 0>>,
       <<14, 0, 0, 0>>, <<-2, -1, 0, 0>>, <<190, 0, -1, 0>>,
       <<205, 0, 0, 0>>, <<-20, 0, 0, 0>>, <<-176, -1, 0, 0>>,
       <<190, 0, 0, 0>>, <<-24, 0, 0, 0>>, <<-184, -1, 0, 0>>,
       <<171, 0, 0, 0>>, <<4, 0, 0, 0>>, <<184, 1, 0, 0>>,
       <<0, 174, 0, 0>>, <<-6, 0, 0, 0>>, <<-154, 0, 0, 0>>,
       <<-168, -1, 0, 0>>, <<163, 0, 0, 0>>, <<-20, 0, 0, 0>>,
       <<-15, 0, 0, 0>>, <<-143, -1, 0, 0>>, <<144, 0, 0, 0>>,
       <<-134, 0, 0, 0>>, <<-143, -1, 0, 0>>, <<-137, 0, 0, 0>>,
       <<131, 1, 0, 0>>, <<-17, 0, 0, 0>>, <<-128, 0, 0, 0>>,
       <<0, -144, 0, 0>>, <<124, 0, 0, 0>>, <<-120, 0, 0, 0>>,
       <<-8, 0, 0, 0>>, <<109, 1, 0, 0>>, <<-108, 0, 0, 0>>,
       <<105, 0, 0, 0>>, <<-104, 0, 0, 0>>, <<-112, 0, 0, 0>>,
       <<105, 1, 0, 0>>, <<-14, 0, 0, 0>>, <<0, 1, 0, 0>>,
       <<7, 0, 0, 0>>, <<-103, 0, 0, 0>>, <<-100, 0, 0, 0>>,
       <<96, 0, 0, 0>>, <<94, 1, 0, 0>>, <<6, 0, 0, 0>>,
       <<-877, 44, -4, -63>>, <<463, 224, 5, -24>>, <<156, -34, 1, 4>>,
       <<52, 58, 2, -1>>, <<-301, 269, 7, 0>>, <<232, -5, 0, 6>>,
       <<10, 232, 34, 0>>, <<-122, -43, 0, 0>>, <<-21, -37, -2, 1>>,
       <<-186, -38, -4, 18>>, <<55, -187, -18, -5>>, <<-55, -187, 18, -5>>,
       <<184, -36, 3, 9>>, <<-6, 13, 0, 0>>, <<-56, -195, 19, 0>>,
       <<55, -191, -19, 0>>, <<-173, -8, 0, 9>>, <<-32, -83, -8, 3>>,
       <<-1, 0, 0, 0>>, <<-54, 78, -3, 0>>, <<-148, 14, 0, 3>>,
       <<-38, 4, 0, -2>>, <<126, 32, 5, -15>>, <<1, 0, 0, 0>>,
       <<-136, 24, -1, 0>>, <<9, 12, 0, 0>>, <<-119, -5, 0, 3>>,
       <<4, 120, 3, -2>>, <<83, 61, -1, 1>>, <<0, 0, 0, 0>>,
       <<4, -108, 3, 0>>, <<96, 22, 3, -12>> >>

\* fmod_: the remainder of x / y with the sign of x
fmod_(x, y) == IF x >= 0 THEN x % y ELSE -((-x) % y)

\* The constants of the nine fundamental angles el, elp, f, d, om, ve, ma,
\* ju, sa: the angle at J2000 in units of 1e-4 degree, and the coefficients
\* of t, t^2, t^3, t^4 in units of 10 arcseconds
NutcAngleConstants ==
    << <<1349634, <<171791592, 3, 0, 0>> >>,
       <<3575291, <<12959658, 0, 0, 0>> >>,
       <<932721, <<173952726, -1, 0, 0>> >>,
       <<2978502, <<160296160, -1, 0, 0>> >>,
       <<1250446, <<-696289, 1, 0, 0>> >>,
       <<1819798, <<21066414, 0, 0, 0>> >>,
       <<3554330, <<6890508, 0, 0, 0>> >>,
       <<343515, <<1092566, 0, 0, 0>> >>,
       <<500774, <<439961, 0, 0, 0>> >> >>

\* deg * DD2R + fmod_ ( t * ( r1 + t * ( r2 + t * ( r3 + t * r4 ) ) ), TURNAS )
\* * DAS2R, for row a of the constants
NutcAngle(a, t) ==
    LET r == a[2]
    IN  (36 * a[1]) \div 1000
        + fmod_(MulFix(t, r[1] + MulFix(t, r[2] + MulFix(t, r[3] + MulFix(t, r[4])))),
                TURNAS)

\* el, elp, f, d, om, ve, ma, ju, sa
NutcAngles(t) == [i \in 1 .. 9 |-> NutcAngle(NutcAngleConstants[i], t)]

\* an angle in units of 10 arcseconds, taken to within one turn, in units of
\* 1e-7 radian
NutcRadians(a) == MulFix((a % TURNAS) * 1000, DAS2R)

\* theta of row j of na
NutcTheta(j, ang) ==
    LET n == na[j + 1]
    IN  n[1] * ang[1] + n[2] * ang[2] + n[3] * ang[3] + n[4] * ang[4] + n[5] * ang[5]
        + n[6] * ang[6] + n[7] * ang[7] + n[8] * ang[8] + n[9] * ang[9]

\* faulty variant: the obliquity coefficients are taken from the next row
NutcTermRowSlip(j, t, ang, acc) ==
    LET theta == NutcRadians(NutcTheta(j, ang))
        c     == cos_(theta)
        sn    == sin_(theta)
        p     == psi[j + 1]
        e     == eps[((j + 1) % Len(eps)) + 1]
    IN  [dp    |-> acc.dp + MulFix(p[1] + MulFix(p[3], t), c)
                          + MulFix(p[2] + MulFix(p[4], t), sn),
         de    |-> acc.de + MulFix(e[1] + MulFix(e[3], t), c)
                          + MulFix(e[2] + MulFix(e[4], t), sn),
         terms |-> Append(acc.terms, j)]

\* one pass of the loop body: the term of row j added to dp and to de
NutcTerm(j, t, ang, acc) ==
    LET theta == NutcRadians(NutcTheta(j, ang))
        c     == cos_(theta)
        sn    == sin_(theta)
        p     == psi[j + 1]
        e     == eps[j + 1]
    IN  [dp    |-> acc.dp + MulFix(p[1] + MulFix(p[3], t), c)
                          + MulFix(p[2] + MulFix(p[4], t), sn),
         de    |-> acc.de + MulFix(e[1] + MulFix(e[3], t), c)
                          + MulFix(e[2] + MulFix(e[4], t), sn),
         terms |-> Append(acc.terms, j)]

RECURSIVE NutcSeriesSkipLast(_, _, _, _, _)
\* faulty variant: row 0 is left out
NutcSeriesSkipLast(first, last, t, ang, acc) ==
    IF first < last THEN acc
    ELSE IF first = last
         THEN IF first = 0 THEN acc ELSE NutcTerm(first, t, ang, acc)
         ELSE LET mid == (first + last + 1) \div 2
              IN  The({ NutcSeriesSkipLast(mid - 1, last, t, ang, upper) :
                          upper \in {NutcSeriesSkipLast(first, mid, t, ang, acc)} })

RECURSIVE NutcSeriesUpward(_, _, _, _, _)
\* faulty variant: the rows are added from the first row of the tables up
NutcSeriesUpward(first, last, t, ang, acc) ==
    IF first < last THEN acc
    ELSE IF first = last
         THEN NutcTerm(first, t, ang, acc)
         ELSE LET mid == (first + last + 1) \div 2
              IN  The({ NutcSeriesUpward(first, mid, t, ang, lower) :
                          lower \in {NutcSeriesUpward(mid - 1, last, t, ang, acc)} })

RECURSIVE NutcSeries(_, _, _, _, _)
\* for ( j = first; j >= last; j-- ): the rows first, first - 1, ..., last
\* added in that order; the range is taken in two halves, the upper half
\* first, which only bounds the depth of the evaluation
NutcSeries(first, last, t, ang, acc) ==
    IF first < last THEN acc
    ELSE IF first = last
         THEN NutcTerm(first, t, ang, acc)
         ELSE LET mid == (first + last + 1) \div 2
              IN  The({ NutcSeries(mid - 1, last, t, ang, upper) :
                          upper \in {NutcSeries(first, mid, t, ang, acc)} })

\* dp = - 153.1 * sin_ ( elp ) - 1.9 * sin_ ( 2.0 * elp ); de = 0.0
NutcGeodesic(ang) ==
    [dp    |-> MulFix(-1531, sin_(NutcRadians(ang[2])))
               + MulFix(-19, sin_(NutcRadians(2 * ang[2]))),
     de    |-> 0,
     terms |-> <<>>]

\* 84381.412 + ( -46.80927 + ( -0.000152 + ( 0.0019989 + ( -0.00000051
\* + ( -0.000000025 ) * t ) * t ) * t ) * t ) * t, in units of 1e-4
\* arcsecond
NutcMeanObliquity(t) ==
    843814120
    + MulFix(-468093 + MulFix(-2 + MulFix(20 + MulFix(0 + MulFix(0, t), t), t), t), t)

\* faulty variant: the obliquity of date, the nutation in obliquity included
NutcOutputsTrueObliquity(t, dp, de) ==
    [dpsi |-> MulFix(dp - 428880 - MulFix(2985600, t), DAS2R * 10),
     deps |-> MulFix(de - 51710 - MulFix(240800, t), DAS2R * 10),
     eps0 |-> MulFix(NutcMeanObliquity(t) + de \div 1000, DAS2R) \div 100]

\* *dpsi = ( dp * 1e-6 - 0.042888 - 0.29856 * t ) * DAS2R, the same for
\* *deps, and *eps0 the polynomial times DAS2R
NutcOutputs(t, dp, de) ==
    [dpsi |-> MulFix(dp - 428880 - MulFix(2985600, t), DAS2R * 10),
     deps |-> MulFix(de - 51710 - MulFix(240800, t), DAS2R * 10),
     eps0 |-> MulFix(NutcMeanObliquity(t), DAS2R) \div 100]

\* the whole routine, with nt the value of the static nterms on entry
slaNutc(date, nt) ==
    LET t   == Fix(Ratio(date - DJM0, DJC))
        ang == NutcAngles(t)
    IN  The({ The({ [dpsi |-> out.dpsi, deps |-> out.deps, eps0 |-> out.eps0,
                     dp |-> acc.dp, de |-> acc.de, terms |-> acc.terms] :
                    out \in {NutcOutputs(t, acc.dp, acc.de)} }) :
              acc \in {NutcSeries(nt - 1, 0, t, ang, NutcGeodesic(ang))} })

\* the dates the caller is modelled to pass: every tenth of a century
\* within NutcSpan tenths of J2000
NutcSpan == 5
NutcDates == { DJM0 + k * (DJC \div 10) : k \in -NutcSpan .. NutcSpan }

\* static int nterms = sizeof ( na ) / sizeof ( int ) / 9
NutcNterms == (Len(na) * 9) \div 9

\* the routine at every date the caller passes, evaluated once for the
\* initial value of nterms
NutcAt == [d \in NutcDates |-> slaNutc(d, NutcNterms)] @@ <<>>

\* faulty variant: the loop counts nterms itself down to 0
NutcNtermsCountedDown(nt) == 0

\* nterms after a call that found it nt: it is read by the loop and assigned
\* nowhere
NutcNtermsAfter(nt) == nt

NutcInit ==
    /\ nterms = NutcNterms
    /\ nutc = [called |-> FALSE, date |-> DJM0, dpsi |-> 0, deps |-> 0,
               eps0 |-> 0, dp |-> 0, de |-> 0, terms |-> <<>>,
               before |-> [dpsi |-> 0, deps |-> 0, eps0 |-> 0, terms |-> <<>>]]

NutcCall ==
    /\ UNCHANGED <<dtf, s2tp, planet, av2m, hist, thr, frames, trk>>
    /\ nterms' = NutcNtermsAfter(nterms)
    /\ \E date \in NutcDates :
       \E r \in {IF nterms = NutcNterms THEN NutcAt[date] ELSE slaNutc(date, nterms)} :
            nutc' = [called |-> TRUE, date |-> date, dpsi |-> r.dpsi,
                     deps |-> r.deps, eps0 |-> r.eps0, dp |-> r.dp, de |-> r.de,
                     terms |-> r.terms,
                     before |-> [dpsi |-> nutc.dpsi, deps |-> nutc.deps,
                                 eps0 |-> nutc.eps0, terms |-> nutc.terms]]

(***************************************************************************)
(* A caller of the whole library, making any calls in any order.           *)
(***************************************************************************)
\* the calls the caller is modelled to make, as <<routine, arguments>>; the
\* arguments of slaPlanet are followed by the status slaPlanel reports
LibraryCalls ==
    { <<"slaDtf2d", a>> : a \in {<<12, 30, 30 * MsPerSec>>, <<25, 30, 30 * MsPerSec>>} }
    \cup { <<"slaS2tp", a>> :
             a \in {<<0, 0, 0, 0>>, <<5235988, 5235988, 0, 0>>, <<QuarterTurn, 0, 0, 0>>} }
    \cup { <<"slaPlanet", <<d, np, o>> >> :
             d \in {DJ2000, DJ2000 + 36525000 + Slack}, np \in {0, 3, 9}, o \in {0, -1} }
    \cup { <<"slaAv2m", a>> : a \in {<<0, 0, 0>>, <<ONE, -2 * ONE, 5235988>>} }
    \cup { <<"slaNutc", <<d>> >> : d \in {DJM0, DJM0 + DJC \div 10} }

\* what the call c returns, on the buffer pv and with the static nterms at nt
LibraryResult(c, pv, nt) ==
    LET a == c[2]
    IN  CASE c[1] = "slaDtf2d"  -> slaDtf2d(a[1], a[2], a[3])
          [] c[1] = "slaS2tp"   -> slaS2tp(a[1], a[2], a[3], a[4])
          [] c[1] = "slaPlanet" -> slaPlanet(a[1], a[2], pv, a[3])
          [] c[1] = "slaAv2m"   -> Av2mAt[a]
          [] c[1] = "slaNutc"   ->
                IF nt = NutcNterms THEN NutcAt[a[1]] ELSE slaNutc(a[1], nt)

LibraryInit ==
    hist = [ref    |-> [call |-> <<"none", <<>> >>, out |-> <<>>],
            last   |-> [call |-> <<"none", <<>> >>, out |-> <<>>],
            others |-> FALSE,
            pv     |-> [i \in 0 .. 5 |-> PvUnset]]

\* one call; the caller either keeps it as the call to compare later ones
\* with, or goes on comparing with the one it has kept
LibraryCall ==
    /\ UNCHANGED <<dtf, s2tp, planet, av2m, nutc, thr, frames, trk>>
    /\ \E c \in LibraryCalls, keep \in BOOLEAN :
       \E now \in {[call |-> c, out |-> LibraryResult(c, hist.pv, nterms)]} :
            /\ hist' = [ref    |-> IF keep THEN now ELSE hist.ref,
                        last   |-> now,
                        others |-> (~keep) /\ (hist.others \/ (hist.ref.call # c)),
                        pv     |-> IF c[1] = "slaPlanet" THEN now.out.pv ELSE hist.pv]
            /\ nterms' = IF c[1] = "slaNutc" THEN NutcNtermsAfter(nterms) ELSE nterms

(***************************************************************************)
(* Threads calling slaNutc and slaPlanet at the same time, one statement   *)
(* group at a time: the entry up to the loop, each pass of a loop, the     *)
(* exit.                                                                   *)
(***************************************************************************)
Threads == {1, 2}

\* faulty variant: the locals have static storage, one instance for all calls
FrameStatic(i) == 1

\* the locals have automatic storage: the instance used by the call that
\* thread i is making
Frame(i) == i

\* the calls the threads are modelled to make
ThreadNutcDates == {DJM0, DJM0 + DJC \div 10}
ThreadPlanetDates == {DJ2000, DJ2000 + 3652500 + Slack}
ThreadBodies == {0, 3, 9}

\* the status slaPlanel reports, for the bodies it is called for
ThreadOutcomes(np) ==
    IF PlanetNpIllegal(np) \/ np = 9 THEN {0} ELSE PlanelOutcomes

\* every value t takes in these calls
ThreadTimes ==
    { DivFix(d - DJM0, DJC) : d \in ThreadNutcDates }
    \cup { Fix(PlanetT(d)) : d \in ThreadPlanetDates }
    \cup { Fix(PlutoT(d)) : d \in ThreadPlanetDates }

\* what one pass of the loop of slaNutc adds to dp and de, for every t and j
NutcTermAt ==
    [a \in ThreadTimes \X (0 .. NutcNterms - 1) |->
        NutcTerm(a[2], a[1], NutcAngles(a[1]), [dp |-> 0, de |-> 0, terms |-> <<>>])]
    @@ <<>>

\* what one pass of the loop of the Pluto branch adds to wlbr, for every t
\* and j
PlutoTermAt ==
    [a \in ThreadTimes \X (0 .. PlutoTermCount - 1) |->
        PlutoTerm(a[1], a[2], [wlbr |-> [i \in 0 .. 2 |-> 0], terms |-> <<>>]).wlbr]
    @@ <<>>

\* locals not yet assigned
FrameNew ==
    [t |-> 0, j |-> 0, dp |-> 0, de |-> 0, wlbr |-> [i \in 0 .. 2 |-> 0],
     ip |-> 0, di |-> 0, dom |-> 0, dpe |-> 0, da |-> 0, dl |-> 0, dm |-> 0]

ThreadInit ==
    /\ thr = [i \in Threads |-> [pc |-> "idle", fn |-> "none", args |-> <<>>, out |-> <<>>]]
    /\ frames = [i \in Threads |-> FrameNew]

\* slaNutc up to the loop: t, the fundamental angles, dp, de, j
ThreadNutcEnter(i) ==
    /\ thr[i].pc \in {"idle", "done"}
    /\ UNCHANGED <<dtf, s2tp, planet, av2m, nutc, nterms, hist, trk>>
    /\ \E date \in ThreadNutcDates :
       \E t \in {DivFix(date - DJM0, DJC)} :
       \E g \in {NutcGeodesic(NutcAngles(t))} :
            /\ thr' = [thr EXCEPT ![i] = [pc |-> "nutc", fn |-> "slaNutc",
                                          args |-> <<date>>, out |-> <<>>]]
            /\ frames' = [frames EXCEPT ![Frame(i)] =
                              [FrameNew EXCEPT !.t = t, !.j = nterms - 1,
                                               !.dp = g.dp, !.de = g.de]]

\* one pass of the loop of slaNutc
ThreadNutcPass(i) ==
    /\ thr[i].pc = "nutc"
    /\ frames[Frame(i)].j >= 0
    /\ UNCHANGED <<dtf, s2tp, planet, av2m, nutc, nterms, hist, thr, trk>>
    /\ LET f   == frames[Frame(i)]
           inc == NutcTermAt[<<f.t, f.j>>]
       IN  frames' = [frames EXCEPT ![Frame(i)] =
                         [f EXCEPT !.dp = f.dp + inc.dp, !.de = f.de + inc.de,
                                   !.j = f.j - 1]]

\* slaNutc after the loop: *dpsi, *deps, *eps0
ThreadNutcExit(i) ==
    /\ thr[i].pc = "nutc"
    /\ frames[Frame(i)].j < 0
    /\ UNCHANGED <<dtf, s2tp, planet, av2m, nutc, nterms, hist, frames, trk>>
    /\ \E f \in {frames[Frame(i)]} :
       \E out \in {NutcOutputs(f.t, f.dp, f.de)} :
           thr' = [thr EXCEPT ![i].pc = "done",
                              ![i].out = [dpsi |-> out.dpsi, deps |-> out.deps,
                                          eps0 |-> out.eps0]]

\* slaPlanet up to the loop of its branch: for an illegal np the whole
\* routine; for Mercury to Neptune the date test and the elements; for Pluto
\* the date test and the initialisation of wlbr
ThreadPlanetEnter(i) ==
    /\ thr[i].pc \in {"idle", "done"}
    /\ UNCHANGED <<dtf, s2tp, planet, av2m, nutc, nterms, hist, trk>>
    /\ \E date \in ThreadPlanetDates, np \in ThreadBodies :
       \E outcome \in ThreadOutcomes(np) :
       \E el \in {IF np \in 1 .. 8 THEN PlanetElementsAt[<<date, np - 1>>]
                  ELSE PlanetNoElements} :
        LET me == [pc |-> "done", fn |-> "slaPlanet", args |-> <<date, np, outcome>>,
                   out |-> [jstat |-> -1, pv |-> [k \in 0 .. 5 |-> PvUnset],
                            planel |-> <<>>, wlbr |-> [k \in 0 .. 2 |-> 0]]]
        IN  IF PlanetNpIllegal(np)
            THEN /\ thr' = [thr EXCEPT ![i] =
                               [me EXCEPT !.out.pv = PlanetZeroPv(me.out.pv)]]
                 /\ UNCHANGED frames
            ELSE IF np # 9
            THEN /\ thr' = [thr EXCEPT ![i] =
                               [me EXCEPT !.pc = "planel",
                                          !.out.jstat = PlanetDateStatus(PlanetT(date))]]
                 /\ frames' = [frames EXCEPT ![Frame(i)] =
                                  [FrameNew EXCEPT !.t = Fix(PlanetT(date)),
                                                   !.ip = np - 1,
                                                   !.di = el.di, !.dom = el.dom,
                                                   !.dpe = el.dpe, !.da = el.da,
                                                   !.dl = el.dl, !.dm = el.dm]]
            ELSE /\ thr' = [thr EXCEPT ![i] =
                               [me EXCEPT !.pc = "pluto",
                                          !.out.jstat = PlutoDateStatus(PlutoT(date))]]
                 /\ frames' = [frames EXCEPT ![Frame(i)] =
                                  [FrameNew EXCEPT !.t = Fix(PlutoT(date)), !.ip = np - 1]]

\* Mercury to Neptune: the call of slaPlanel with the elements, and the
\* status
ThreadPlanetPredict(i) ==
    /\ thr[i].pc = "planel"
    /\ UNCHANGED <<dtf, s2tp, planet, av2m, nutc, nterms, hist, frames, trk>>
    /\ LET f    == frames[Frame(i)]
           date == thr[i].args[1]
           r    == slaPlanel(date, 1, date, thr[i].out.pv, thr[i].args[3])
       IN  thr' = [thr EXCEPT ![i].pc = "done",
                              ![i].out.pv = r.pv,
                              ![i].out.jstat = PlanetOverride(thr[i].out.jstat, r.j),
                              ![i].out.planel =
                                  <<[date |-> date, jform |-> 1, epoch |-> date,
                                     di |-> f.di, dom |-> f.dom, dpe |-> f.dpe,
                                     da |-> f.da, dl |-> f.dl, dm |-> f.dm,
                                     j |-> r.j]>>]

\* one pass of the loop of the Pluto branch
ThreadPlutoPass(i) ==
    /\ thr[i].pc = "pluto"
    /\ frames[Frame(i)].j < PlutoTermCount
    /\ UNCHANGED <<dtf, s2tp, planet, av2m, nutc, nterms, hist, thr, trk>>
    /\ LET f   == frames[Frame(i)]
           inc == PlutoTermAt[<<f.t, f.j>>]
       IN  frames' = [frames EXCEPT ![Frame(i)] =
                         [f EXCEPT !.wlbr = [k \in 0 .. 2 |-> f.wlbr[k] + inc[k]],
                                   !.j = f.j + 1]]

\* the Pluto branch after the loop: pv[0] .. pv[5]
ThreadPlutoExit(i) ==
    /\ thr[i].pc = "pluto"
    /\ frames[Frame(i)].j >= PlutoTermCount
    /\ UNCHANGED <<dtf, s2tp, planet, av2m, nutc, nterms, hist, frames, trk>>
    /\ thr' = [thr EXCEPT ![i].pc = "done",
                          ![i].out.pv = [k \in 0 .. 5 |-> PvPluto],
                          ![i].out.wlbr = frames[Frame(i)].wlbr]

\* what the call of thread i returns when it runs alone
ThreadAlone(fn, args) ==
    IF fn = "slaNutc"
    THEN The({ [dpsi |-> r.dpsi, deps |-> r.deps, eps0 |-> r.eps0] :
               r \in {NutcAt[args[1]]} })
    ELSE The({ [jstat |-> r.jstat, pv |-> r.pv, planel |-> r.planel,
                wlbr |-> IF args[2] = 9 THEN PlutoSumsAt[args[1]].wlbr
                         ELSE [k \in 0 .. 2 |-> 0]] :
               r \in {slaPlanet(args[1], args[2], [k \in 0 .. 5 |-> PvUnset],
                                args[3])} })

(***************************************************************************)
(* CtrkModule: the module that the cyclic task calls once per cycle.  The  *)
(* state machine of the runtime drives SetObjStateSO (SAFEOP to OP) and    *)
(* SetObjStateOS (OP to SAFEOP) in one context; the cyclic caller calls    *)
(* CycleUpdate of every module in its list from the task's context, so a   *)
(* cycle can fall between any two statements of a transition.              *)
(*                                                                         *)
(* A smart pointer is a pair: oid, whether an object id has been set, and  *)
(* ptr, whether it holds an interface.  Assigning NULL drops the interface *)
(* and keeps the object id.  The calls on the runtime (the interface       *)
(* queries, AddModule, GetCurDcTime) succeed or fail as the runtime        *)
(* decides.                                                                *)
(***************************************************************************)
FAILED(hr) == hr # "S_OK"

\* what TcQuerySmartObjectInterface, AddModule and GetCurDcTime can return
QueryResults == {"S_OK", "E_NOINTERFACE"}

AddModuleResults == {"S_OK", "E_FAIL"}

DcTimeResults == {"S_OK", "E_POINTER"}

\* the distributed-clock times a successful read delivers
DcTimes == {1, 2}

\* the cycles followed for one module
MaxCycles == 3

\* the constructor: both smart pointers empty, the data areas zeroed
ModuleInit ==
    trk = [state |-> "SAFEOP", pc |-> "idle", hr |-> "S_OK",
           caller |-> [oid |-> FALSE, ptr |-> FALSE],
           rtime |-> [oid |-> FALSE, ptr |-> FALSE],
           registered |-> 0,
           outputs |-> [time_tai |-> <<"tai", 0>>, time_utc |-> <<"utc", 0>>],
           ret |-> [fn |-> "none", hr |-> "S_OK"],
           add |-> [called |-> FALSE, oid |-> FALSE, query |-> "none",
                    add |-> "none", hr |-> "S_OK", before |-> 0, after |-> 0,
                    ptr |-> FALSE],
           so |-> [add |-> "none", query |-> "none"],
           remove |-> [called |-> FALSE, registered |-> 0],
           strayRemove |-> FALSE,
           cycle |-> [n |-> 0, rtime |-> TRUE, fault |-> FALSE, computed |-> 0,
                      tai |-> FALSE, utc |-> FALSE, clock |-> "S_OK",
                      hr |-> "S_OK"]]

\* SETOBJPARA_ITFPTR(PID_Ctx_TaskOid, m_spCyclicCaller): the configuration
\* names the task, or names none, before the module is taken to OP
ModuleSetObjPara ==
    /\ trk.pc = "idle" /\ trk.state = "SAFEOP"
    /\ \E oid \in BOOLEAN :
           /\ oid # trk.caller.oid
           /\ trk' = [trk EXCEPT !.caller = [oid |-> oid, ptr |-> FALSE]]
    /\ UNCHANGED <<dtf, s2tp, planet, av2m, nutc, nterms, hist, thr, frames>>

\* AddModuleToCaller where a failed AddModule leaves the pointer set
AddModuleToCallerKeepsPointer(m, q, a) ==
    IF m.caller.oid
    THEN IF ~FAILED(q)
         THEN IF FAILED(a)
              THEN [m EXCEPT !.hr = a, !.caller.ptr = TRUE]
              ELSE [m EXCEPT !.hr = a, !.caller.ptr = TRUE,
                             !.registered = @ + 1]
         ELSE [m EXCEPT !.hr = q]
    ELSE [m EXCEPT !.hr = "ADS_E_INVALIDOBJID"]

\* AddModuleToCaller, the interface query returning q and AddModule a
AddModuleToCaller(m, q, a) ==
    IF m.caller.oid
    THEN IF ~FAILED(q)
         THEN IF FAILED(a)
              THEN [m EXCEPT !.hr = a, !.caller.ptr = FALSE]
              ELSE [m EXCEPT !.hr = a, !.caller.ptr = TRUE,
                             !.registered = @ + 1]
         ELSE [m EXCEPT !.hr = q]
    ELSE [m EXCEPT !.hr = "ADS_E_INVALIDOBJID"]

\* RemoveModuleFromCaller calling the caller whether or not it holds it
RemoveModuleFromCallerUnguarded(m) ==
    [m EXCEPT !.registered = IF @ > 0 THEN @ - 1 ELSE 0,
              !.caller.ptr = FALSE,
              !.remove = [called |-> TRUE, registered |-> m.registered],
              !.strayRemove = @ \/ m.registered = 0]

\* RemoveModuleFromCaller: RemoveModule only through a held interface
RemoveModuleFromCaller(m) ==
    [m EXCEPT !.registered = IF m.caller.ptr /\ @ > 0 THEN @ - 1 ELSE @,
              !.caller.ptr = FALSE,
              !.remove = [called |-> m.caller.ptr, registered |-> m.registered],
              !.strayRemove = @ \/ (m.caller.ptr /\ m.registered = 0)]

\* the cleanup of SetObjStateSO leaving the module with the caller
SetObjStateSOCleanupLeavesModule(m) ==
    m

\* the cleanup of SetObjStateSO: only after a failure
SetObjStateSOCleanup(m) ==
    IF FAILED(m.hr) THEN RemoveModuleFromCaller(m) ELSE m

\* SetObjStateSO up to the return of AddModuleToCaller
ModuleSOAdd ==
    /\ trk.pc = "idle" /\ trk.state = "SAFEOP"
    /\ \E q \in QueryResults, a \in AddModuleResults :
       \E m \in {AddModuleToCaller([trk EXCEPT !.hr = "S_OK"], q, a)} :
           trk' = [m EXCEPT !.pc = "so_query",
                            !.so = [add |-> m.hr, query |-> "none"],
                            !.add = [called |-> TRUE, oid |-> trk.caller.oid,
                                     query |-> IF trk.caller.oid THEN q ELSE "none",
                                     add |-> IF trk.caller.oid /\ ~FAILED(q)
                                             THEN a ELSE "none",
                                     hr |-> m.hr, before |-> trk.registered,
                                     after |-> m.registered,
                                     ptr |-> m.caller.ptr]]
    /\ UNCHANGED <<dtf, s2tp, planet, av2m, nutc, nterms, hist, thr, frames>>

\* SetObjStateSO: the object id of the clock, then the query for it unless
\* hr already holds a failure
ModuleSOQuery ==
    /\ trk.pc = "so_query"
    /\ \E q \in QueryResults :
           trk' = IF FAILED(trk.hr)
                  THEN [trk EXCEPT !.pc = "so_cleanup", !.rtime.oid = TRUE]
                  ELSE [trk EXCEPT !.pc = "so_cleanup", !.hr = q,
                                   !.rtime = [oid |-> TRUE, ptr |-> ~FAILED(q)],
                                   !.so.query = q]
    /\ UNCHANGED <<dtf, s2tp, planet, av2m, nutc, nterms, hist, thr, frames>>

\* SetObjStateSO: the first statement of the cleanup
ModuleSOCleanup ==
    /\ trk.pc = "so_cleanup"
    /\ trk' = [SetObjStateSOCleanup(trk) EXCEPT !.pc = "so_release"]
    /\ UNCHANGED <<dtf, s2tp, planet, av2m, nutc, nterms, hist, thr, frames>>

\* SetObjStateSO: the second statement of the cleanup, and the return; the
\* state machine moves to OP when the transition succeeded
ModuleSOReturn ==
    /\ trk.pc = "so_release"
    /\ trk' = [trk EXCEPT !.pc = "idle",
                          !.rtime.ptr = IF FAILED(trk.hr) THEN FALSE ELSE @,
                          !.ret = [fn |-> "SetObjStateSO", hr |-> trk.hr],
                          !.state = IF FAILED(trk.hr) THEN "SAFEOP" ELSE "OP"]
    /\ UNCHANGED <<dtf, s2tp, planet, av2m, nutc, nterms, hist, thr, frames>>

\* SetObjStateOS up to the return of RemoveModuleFromCaller
ModuleOSRemove ==
    /\ trk.pc = "idle"
    /\ trk' = [RemoveModuleFromCaller([trk EXCEPT !.hr = "S_OK"])
                   EXCEPT !.pc = "os_release"]
    /\ UNCHANGED <<dtf, s2tp, planet, av2m, nutc, nterms, hist, thr, frames>>

\* SetObjStateOS: the clock interface dropped, and the return
ModuleOSReturn ==
    /\ trk.pc = "os_release"
    /\ trk' = [trk EXCEPT !.pc = "idle", !.rtime.ptr = FALSE,
                          !.ret = [fn |-> "SetObjStateOS", hr |-> trk.hr],
                          !.state = "SAFEOP"]
    /\ UNCHANGED <<dtf, s2tp, planet, av2m, nutc, nterms, hist, thr, frames>>

\* CycleUpdate through a held clock interface: the read returns clock and, on
\* success, the time dc
CycleUpdate(m, clock, dc) ==
    [m EXCEPT !.outputs = [time_tai |-> <<"tai", dc>>, time_utc |-> <<"utc", dc>>],
              !.cycle = [n |-> @.n + 1, rtime |-> m.rtime.ptr, fault |-> FALSE,
                         computed |-> 1, tai |-> TRUE, utc |-> TRUE,
                         clock |-> clock, hr |-> clock]]

\* CycleUpdate through an empty clock interface: the call through the null
\* pointer stops the task before anything is written
CycleUpdateFault(m) ==
    [m EXCEPT !.pc = "halted",
              !.cycle = [n |-> @.n + 1, rtime |-> FALSE, fault |-> TRUE,
                         computed |-> 0, tai |-> FALSE, utc |-> FALSE,
                         clock |-> "none", hr |-> "none"]]

\* the cyclic caller calls CycleUpdate of a module in its list; through an
\* empty m_spRTime the call either stops the task or runs on with whatever
\* the stray call returned
ModuleCycleUpdate ==
    /\ trk.registered > 0 /\ trk.pc # "halted" /\ trk.cycle.n < MaxCycles
    /\ \E clock \in DcTimeResults, time \in DcTimes, fault \in BOOLEAN :
           trk' = IF ~trk.rtime.ptr /\ fault
                  THEN CycleUpdateFault(trk)
                  ELSE CycleUpdate(trk, clock, IF FAILED(clock) THEN 0 ELSE time)
    /\ UNCHANGED <<dtf, s2tp, planet, av2m, nutc, nterms, hist, thr, frames>>

(***************************************************************************)
(* Specifications: one per routine, each started from zeroed caller        *)
(* buffers and calling that routine any number of times.                   *)
(***************************************************************************)
Init ==
    /\ DtfInit /\ S2tpInit /\ PlanetInit /\ Av2mInit /\ NutcInit
    /\ LibraryInit /\ ThreadInit /\ ModuleInit

NextDtf2d == Dtf2dCall

SpecDtf2d == Init /\ [][NextDtf2d]_vars

NextS2tp == S2tpCall

SpecS2tp == Init /\ [][NextS2tp]_vars

NextPlanet == PlanetCall

SpecPlanet == Init /\ [][NextPlanet]_vars

NextAv2m == Av2mCall

SpecAv2m == Init /\ [][NextAv2m]_vars

NextNutc == NutcCall

SpecNutc == Init /\ [][NextNutc]_vars

NextLibrary == LibraryCall

SpecLibrary == Init /\ [][NextLibrary]_vars

NextThreads ==
    \E i \in Threads :
        \/ ThreadNutcEnter(i)
        \/ ThreadNutcPass(i)
        \/ ThreadNutcExit(i)
        \/ ThreadPlanetEnter(i)
        \/ ThreadPlanetPredict(i)
        \/ ThreadPlutoPass(i)
        \/ ThreadPlutoExit(i)

SpecThreads == Init /\ [][NextThreads]_vars

NextModule ==
    \/ ModuleSetObjPara
    \/ ModuleSOAdd
    \/ ModuleSOQuery
    \/ ModuleSOCleanup
    \/ ModuleSOReturn
    \/ ModuleOSRemove
    \/ ModuleOSReturn
    \/ ModuleCycleUpdate

SpecModule == Init /\ [][NextModule]_vars

(***************************************************************************)
(* Properties of slaDtf2d.                                                 *)
(***************************************************************************)
\* C1: the status names the last-checked invalid field: 1 whenever the hour
\* is outside 0..23, whatever the minute and second; 2 whenever the hour is
\* valid and the minute is outside 0..59, whatever the second; 3 only when
\* hour and minute are valid and sec < 0 or sec >= 60.
C1_LastCheckedFieldWins ==
    dtf.called =>
        /\ (dtf.ihour < 0 \/ dtf.ihour > 23) => dtf.j = 1
        /\ ((dtf.ihour >= 0 /\ dtf.ihour <= 23) /\ (dtf.imin < 0 \/ dtf.imin > 59))
               => dtf.j = 2
        /\ dtf.j = 3 =>
               /\ dtf.ihour >= 0 /\ dtf.ihour <= 23
               /\ dtf.imin >= 0 /\ dtf.imin <= 59
               /\ (dtf.sec < 0 \/ dtf.sec >= 60000)

\* (12,70,70): minutes and seconds both invalid, the status is that of the minutes
C1_Witness ==
    /\ dtf.called /\ dtf.ihour = 12 /\ dtf.imin = 70 /\ dtf.sec = 70000
    /\ dtf.j = 2

\* C2: the interval is (3600*hour + 60*minute + second) / 86400 for every
\* input and every status.
C2_DaysAlwaysComputed ==
    dtf.called =>
        /\ dtf.days.num = 3600000 * dtf.ihour + 60000 * dtf.imin + dtf.sec
        /\ dtf.days.den = 86400000

\* (25,30,30): status 1 and the full interval
C2_Witness ==
    /\ dtf.called /\ dtf.ihour = 25 /\ dtf.imin = 30 /\ dtf.sec = 30000
    /\ dtf.j = 1
    /\ dtf.days.num = 25 * 3600000 + 30 * 60000 + 30000

\* C3: the status is 0 exactly when 0 <= hour <= 23, 0 <= minute <= 59 and
\* 0 <= sec < 60; sec = 60 exactly is not OK, and (0,0,0) gives days 0.
C3_OkIffAllInRange ==
    dtf.called =>
        /\ dtf.j = 0 <=>
              /\ dtf.ihour >= 0 /\ dtf.ihour <= 23
              /\ dtf.imin >= 0 /\ dtf.imin <= 59
              /\ dtf.sec >= 0 /\ dtf.sec < 60000
        /\ (dtf.ihour = 0 /\ dtf.imin = 0 /\ dtf.sec = 0) => dtf.days.num = 0

\* (23,59,59.999) is accepted
C3_Witness ==
    /\ dtf.called /\ dtf.ihour = 23 /\ dtf.imin = 59 /\ dtf.sec = 59999
    /\ dtf.j = 0

(***************************************************************************)
(* Properties of slaS2tp.                                                  *)
(***************************************************************************)
\* C4 as stated: the four statuses with the thresholds OK if denom > eps,
\* NearAxisLimit if 0 <= denom <= eps, AntistarOnPlane if -eps < denom <= 0,
\* AntistarTooFar if denom <= -eps.
C4_AsStated ==
    s2tp.called =>
        /\ (s2tp.denom > TINY) => s2tp.j = 0
        /\ (0 <= s2tp.denom /\ s2tp.denom <= TINY) => s2tp.j = 1
        /\ (-TINY < s2tp.denom /\ s2tp.denom <= 0) => s2tp.j = 2
        /\ (s2tp.denom <= -TINY) => s2tp.j = 3

\* C4, amended: every value of denom gets exactly one status: 0 iff
\* denom > eps, 1 iff 0 <= denom <= eps, 2 iff -eps < denom < 0 (zero itself
\* belongs to status 1), 3 iff denom <= -eps.
C4_FourWayClassification ==
    s2tp.called =>
        /\ s2tp.j = 0 <=> s2tp.denom > TINY
        /\ s2tp.j = 1 <=> (0 <= s2tp.denom /\ s2tp.denom <= TINY)
        /\ s2tp.j = 2 <=> (-TINY < s2tp.denom /\ s2tp.denom < 0)
        /\ s2tp.j = 3 <=> s2tp.denom <= -TINY

\* denom exactly eps is still "too far from axis"
C4_Witness == s2tp.called /\ s2tp.denom = TINY /\ s2tp.j = 1

\* C5 as stated: denom exactly 0 gives AntistarOnPlane and xi, eta divided by -eps.
C5_AsStated ==
    (s2tp.called /\ s2tp.denom = 0) =>
        s2tp.j = 2 /\ s2tp.xi.den = -TINY /\ s2tp.eta.den = -TINY

\* C5, amended: denom exactly 0 gives status 1 (NearAxisLimit) and xi, eta
\* are finite, computed with the clamped divisor +eps.
C5_ZeroDenomIsNearAxis ==
    (s2tp.called /\ s2tp.denom = 0) =>
        s2tp.j = 1 /\ s2tp.xi.den = TINY /\ s2tp.eta.den = TINY

\* a point a quarter turn in right ascension from the tangent point, both on
\* the equator: denom is exactly 0
C5_Witness ==
    /\ s2tp.called /\ s2tp.denom = 0 /\ s2tp.j = 1
    /\ s2tp.xi = Ratio(ONE, TINY)

\* C6: xi and eta are computed on every path with one divisor of magnitude
\* >= eps: denom itself for statuses 0 and 3, exactly +eps for status 1 and
\* exactly -eps for status 2; no call divides by zero.
C6_DivisorNeverZero ==
    s2tp.called =>
        /\ s2tp.xi.den = s2tp.eta.den
        /\ s2tp.xi.den # 0
        /\ Abs(s2tp.xi.den) >= TINY
        /\ s2tp.j \in {0, 3} => s2tp.xi.den = s2tp.denom
        /\ s2tp.j = 1 => s2tp.xi.den = TINY
        /\ s2tp.j = 2 => s2tp.xi.den = -TINY
        /\ s2tp.xi.num = MulFix(cos_(s2tp.dec), sin_(s2tp.ra - s2tp.raz))

\* an antistar just behind the plane: status 2, a nonzero xi over -eps
C6_Witness ==
    /\ s2tp.called /\ s2tp.j = 2 /\ s2tp.denom = -3
    /\ s2tp.xi.den = -TINY /\ s2tp.xi.num # 0

\* C7: the tangent point itself projects to xi = 0, eta = 0 with status 0.
C7_TangentPointIsOrigin ==
    (s2tp.called /\ s2tp.ra = s2tp.raz /\ s2tp.dec = s2tp.decz) =>
        /\ s2tp.j = 0
        /\ s2tp.xi.num = 0 /\ s2tp.xi.den > 0
        /\ s2tp.eta.num = 0 /\ s2tp.eta.den > 0

\* a tangent point off the equator and off the zero meridian
C7_Witness ==
    /\ s2tp.called /\ s2tp.ra = s2tp.raz /\ s2tp.dec = s2tp.decz
    /\ s2tp.ra # 0 /\ s2tp.dec # 0 /\ s2tp.dec # QuarterTurn
    /\ s2tp.j = 0 /\ s2tp.eta.num = 0

(***************************************************************************)
(* Properties of slaPlanet.                                                *)
(***************************************************************************)
\* C8: with np outside 1..9, at any epoch, the status is -1, all six
\* components of pv are zero, and slaPlanel is not called.
C8_IllegalBodyZeroVector ==
    (planet.called /\ (planet.np < 1 \/ planet.np > 9)) =>
        /\ planet.jstat = -1
        /\ \A i \in 0 .. 5 : planet.pv[i] = PvZero
        /\ planet.planel = <<>>

\* np = 10 at a remote epoch, on a buffer that held a planet's vector
C8_Witness ==
    /\ planet.called /\ planet.np = 10 /\ planet.date > DJ2000 + 36525000
    /\ planet.pvIn[5] = PvPlanel
    /\ planet.jstat = -1 /\ planet.pv[5] = PvZero

\* C9: for Pluto the status is 0 when -1.15 <= t <= 1.0 (t in Julian
\* centuries since J2000) and otherwise the warning +1, the code bodies 1-8
\* return for a remote epoch.
C9_PlutoWarningCode ==
    (planet.called /\ planet.np = 9) =>
        IF /\ planet.date - DJ2000 >= -4200375
           /\ planet.date - DJ2000 <= 3652500
        THEN planet.jstat = 0
        ELSE planet.jstat = 1

\* C10: for bodies 1..8 the date test sets 0 when |t| <= 1 (t in Julian
\* millennia since J2000, limits included) and +1 otherwise, and in both
\* cases slaPlanel is then called once, for the same date, and writes pv;
\* the status of the date test is returned when slaPlanel succeeds.
C10_WarningDoesNotStopComputation ==
    (planet.called /\ planet.np \in 1 .. 8) =>
        /\ planet.jdate = IF /\ planet.date >= DJ2000 - 36525000
                             /\ planet.date <= DJ2000 + 36525000
                          THEN 0 ELSE 1
        /\ Len(planet.planel) = 1
        /\ planet.planel[1].date = planet.date
        /\ \A i \in 0 .. 5 : planet.pv[i] = PvPlanel
        /\ planet.planel[1].j >= 0 => planet.jstat = planet.jdate

\* a remote epoch: the warning is returned together with slaPlanel's vector
C10_Witness ==
    /\ planet.called /\ planet.np = 3 /\ planet.date < DJ2000 - 36525000
    /\ planet.jstat = 1 /\ Len(planet.planel) = 1 /\ planet.pv[0] = PvPlanel

\* C11: for bodies 1..8, when slaPlanel reports a failure (j < 0) the
\* status returned is -2, whether the date test gave 0 or +1; when it
\* reports success the status of the date test is returned unchanged.
C11_NonConvergenceOverrides ==
    (planet.called /\ planet.np \in 1 .. 8 /\ Len(planet.planel) = 1) =>
        /\ planet.jdate \in {0, 1}
        /\ planet.planel[1].j < 0 => planet.jstat = -2
        /\ planet.planel[1].j >= 0 => planet.jstat = planet.jdate

\* a remote epoch and a failure of slaPlanel together: the failure is reported
C11_Witness ==
    /\ planet.called /\ planet.np = 5 /\ planet.jdate = 1
    /\ Len(planet.planel) = 1 /\ planet.planel[1].j < 0
    /\ planet.jstat = -2

\* C12: the status -1 is returned only for np outside 1..9: for every np in
\* 1..9 and every epoch the status is 0, +1 or -2, and a status of -1 comes
\* with the zero vector.
C12_InvalidBodyOnlyForIllegalNp ==
    planet.called =>
        /\ planet.np \in 1 .. 9 => planet.jstat \in {0, 1, -2}
        /\ planet.jstat = -1 => \A i \in 0 .. 5 : planet.pv[i] = PvZero

\* C13: for Pluto every one of the 43 rows of term is evaluated exactly once,
\* in order, and all six components of pv are written, whether the date
\* test gave 0 or not.
C13_PlutoAllTermsAllComponents ==
    (planet.called /\ planet.np = 9) =>
        /\ planet.terms = [k \in 1 .. 43 |-> k - 1]
        /\ \A i \in 0 .. 5 : planet.pv[i] = PvPluto

\* Pluto at an epoch outside the validity window, the series still evaluated
C13_Witness ==
    /\ planet.called /\ planet.np = 9 /\ planet.jdate # 0
    /\ Len(planet.terms) = 43
    /\ \A i \in 0 .. 5 : planet.pv[i] = PvPluto

Av2mIdentity == <<<<ONE, 0, 0>>, <<0, ONE, 0>>, <<0, 0, ONE>>>>

\* C14: on the zero axial vector rmat is exactly the identity matrix, and no
\* division is performed: the normalisation is skipped when phi is 0, so
\* no divisor is zero.
C14_ZeroVectorGivesIdentity ==
    /\ (av2m.called /\ av2m.axvec = <<0, 0, 0>>) =>
           (av2m.rmat = Av2mIdentity /\ av2m.divisors = <<>>)
    /\ \A k \in DOMAIN av2m.divisors : av2m.divisors[k] # 0

\* the zero vector has been passed and the identity returned
C14_Witness ==
    /\ av2m.called /\ av2m.axvec = <<0, 0, 0>> /\ av2m.phi = 0
    /\ av2m.rmat = Av2mIdentity

\* two matrices agree to 1e-5 in every element
Av2mClose(A, B) ==
    \A i \in 1 .. 3 : \A k \in 1 .. 3 : Abs(A[i][k] - B[i][k]) <= 100

\* R times its transpose
Av2mTimesTranspose(R) ==
    [i \in 1 .. 3 |-> [k \in 1 .. 3 |->
        MulFix(R[i][1], R[k][1]) + MulFix(R[i][2], R[k][2]) + MulFix(R[i][3], R[k][3])]]

\* I cos(phi) + (1 - cos(phi)) a (x) a + sign * sin(phi) [a]x, for the unit
\* axis a and the angle phi of the axial vector v; [a]x is the cross-product
\* matrix of a: [a]x u = a x u
Av2mRodrigues(v, sign) ==
    LET phi == sqrt_(MulFix(v[1], v[1]) + MulFix(v[2], v[2]) + MulFix(v[3], v[3]))
        a   == [i \in 1 .. 3 |-> DivFix(v[i], phi)]
        K   == << <<0, -a[3], a[2]>>, <<a[3], 0, -a[1]>>, <<-a[2], a[1], 0>> >>
    IN  [i \in 1 .. 3 |-> [k \in 1 .. 3 |->
            (IF i = k THEN cos_(phi) ELSE 0)
            + MulFix(ONE - cos_(phi), MulFix(a[i], a[k]))
            + sign * MulFix(sin_(phi), K[i][k])]]

\* C15 as stated: for a nonzero axial vector rmat is orthonormal and equals
\* Rodrigues' form I cos(phi) + (1 - cos(phi)) a (x) a + sin(phi) [a]x.
C15_AsStated ==
    (av2m.called /\ av2m.axvec # <<0, 0, 0>>) =>
        /\ Av2mClose(Av2mTimesTranspose(av2m.rmat), Av2mIdentity)
        /\ Av2mClose(av2m.rmat, Av2mRodrigues(av2m.axvec, 1))

\* C15, amended: for a nonzero axial vector rmat is orthonormal (R times its
\* transpose is the identity to 1e-5) and equals the transpose of Rodrigues'
\* form, I cos(phi) + (1 - cos(phi)) a (x) a - sin(phi) [a]x: the matrix of
\* the rotation of the reference frame, not of the vectors.
C15_OrthonormalFrameRotation ==
    (av2m.called /\ av2m.axvec # <<0, 0, 0>>) =>
        /\ Av2mClose(Av2mTimesTranspose(av2m.rmat), Av2mIdentity)
        /\ Av2mClose(av2m.rmat, Av2mRodrigues(av2m.axvec, -1))

\* an axial vector with three nonzero components and an angle whose sine is
\* not zero: the matrix is not symmetric
C15_Witness ==
    /\ av2m.called /\ av2m.axvec = <<ONE, -2 * ONE, 5235988>>
    /\ av2m.rmat[1][2] # av2m.rmat[2][1]
    /\ Av2mClose(Av2mTimesTranspose(av2m.rmat), Av2mIdentity)

(***************************************************************************)
(* Properties of slaNutc.                                                  *)
(***************************************************************************)
\* the rows k - 1, k - 2, ..., 0 in that order
NutcRowsDown(k) == [i \in 1 .. k |-> k - i]

\* C16 as stated: the three tables have 263 rows each and every call
\* accumulates all 263 terms.
C16_AsStated ==
    /\ Len(na) = 263 /\ Len(psi) = 263 /\ Len(eps) = 263
    /\ nutc.called => nutc.terms = NutcRowsDown(263)

\* C16, amended: the series has exactly 194 terms: na, psi and eps have 194
\* rows each, nterms is 194, and every call accumulates all 194 rows, each
\* once, from the last row to the first.
C16_AllTermsAccumulated ==
    /\ Len(na) = 194 /\ Len(psi) = 194 /\ Len(eps) = 194
    /\ nterms = 194
    /\ nutc.called => nutc.terms = NutcRowsDown(194)

\* a call away from J2000 has accumulated the whole series
C16_Witness ==
    /\ nutc.called /\ nutc.date # DJM0
    /\ Len(nutc.terms) = 194 /\ nutc.terms[1] = 193 /\ nutc.terms[194] = 0
    /\ nutc.dp # 0 /\ nutc.de # 0

\* C17: at J2000 (t = 0) the mean obliquity is exactly the constant term
\* 84381.412 arcsec converted to radians; at every epoch it is the value of
\* the polynomial in t alone, whatever dp and de the series accumulated.
C17_MeanObliquityPolynomialOnly ==
    nutc.called =>
        LET t == DivFix(nutc.date - DJM0, DJC)
        IN  /\ nutc.date = DJM0 => nutc.eps0 = MulFix(843814120, DAS2R) \div 100
            /\ nutc.eps0 =
                   MulFix(843814120 + MulFix(-468093 + MulFix(-2 + MulFix(20, t), t), t),
                          DAS2R) \div 100

\* a call at J2000, where the series is not zero, after a call at another date
C17_Witness ==
    /\ nutc.called /\ nutc.date = DJM0 /\ nutc.de # 0 /\ nutc.dp # 0
    /\ nutc.eps0 = 4090926
    /\ nutc.before.eps0 # 0 /\ nutc.before.eps0 # nutc.eps0

(***************************************************************************)
(* Properties of the library as a whole.                                   *)
(***************************************************************************)
\* C19: a call with the same routine and arguments as an earlier call returns
\* the same outputs and status, whatever calls were made in between and
\* whatever the caller's buffer held; the static nterms is never changed.
C19_SameInputsSameOutputs ==
    /\ nterms = NutcNterms
    /\ hist.ref.call = hist.last.call => hist.ref.out = hist.last.out

\* slaNutc called again with the date of an earlier call, a different call
\* having been made in between
C19_Witness ==
    /\ hist.ref.call = <<"slaNutc", <<DJM0>> >>
    /\ hist.last.call = hist.ref.call
    /\ hist.others
    /\ hist.last.out = hist.ref.out /\ hist.last.out.dp # 0

\* C20: whatever the interleaving of the threads, a finished call has
\* returned what the same call returns when it runs alone, and the static
\* nterms is only read.
C20_NoInterference ==
    /\ nterms = NutcNterms
    /\ \A i \in Threads :
        thr[i].pc = "done" => thr[i].out = ThreadAlone(thr[i].fn, thr[i].args)

\* thread 1 has finished a call of slaNutc while thread 2 is inside the loop
\* of a call of slaNutc for another date
C20_Witness ==
    /\ thr[1].pc = "done" /\ thr[1].fn = "slaNutc"
    /\ thr[2].pc = "nutc" /\ thr[2].args # thr[1].args
    /\ frames[2].j > 0 /\ frames[2].j < nterms - 1
    /\ thr[1].out = ThreadAlone(thr[1].fn, thr[1].args)

(***************************************************************************)
(* Properties of the loops of slaPlanet and slaNutc.                       *)
(***************************************************************************)
\* C21: the number of passes of every loop of a call is fixed by the sizes of
\* the tables and does not depend on the date or on any status: none for an
\* illegal np, ten passes adding nineteen terms and one call of slaPlanel
\* for Mercury to Neptune, one pass per row of term for Pluto, one pass per
\* row of na for slaNutc.
C21_PassesFixedByTables ==
    /\ hist.last.call[1] = "slaPlanet" =>
        LET np  == hist.last.call[2][2]
            out == hist.last.out
            ap  == out.unreduced.applied
        IN  /\ PlanetNpIllegal(np) =>
                (out.terms = <<>>) /\ (ap = <<>>) /\ (out.planel = <<>>)
            /\ np \in 1 .. 8 =>
                /\ Len(ap) = 19
                /\ Cardinality({k \in 1 .. Len(ap) : ap[k].el = "dl"}) = 10
                /\ out.terms = <<>>
                /\ Len(out.planel) = 1
            /\ np = 9 =>
                (Len(out.terms) = Len(term)) /\ (ap = <<>>) /\ (out.planel = <<>>)
    /\ hist.last.call[1] = "slaNutc" => Len(hist.last.out.terms) = Len(na)

\* Pluto at a date past the validity window, after Pluto at J2000: the same
\* 43 passes
C21_Witness ==
    /\ hist.ref.call = <<"slaPlanet", <<DJ2000, 9, 0>> >>
    /\ hist.last.call = <<"slaPlanet", <<DJ2000 + 36525000 + Slack, 9, 0>> >>
    /\ hist.last.out.jstat = -1 /\ hist.ref.out.jstat = 0
    /\ Len(hist.last.out.terms) = 43 /\ Len(hist.ref.out.terms) = 43

RECURSIVE SeqSum(_)
\* the sum of the elements of q, taken by halves
SeqSum(q) ==
    IF Len(q) = 0 THEN 0
    ELSE IF Len(q) = 1 THEN q[1]
    ELSE SeqSum(SubSeq(q, 1, Len(q) \div 2))
         + SeqSum(SubSeq(q, Len(q) \div 2 + 1, Len(q)))

\* the terms of Mercury to Neptune in the order of the code: da and dl for
\* j = 0 .. 7 as they are, da for j = 8 times t, dl for j = 8 and 9 times t
PlanetAppliedInOrder ==
    [k \in 1 .. 19 |->
        IF k <= 16
        THEN [el |-> IF k % 2 = 1 THEN "da" ELSE "dl", j |-> (k - 1) \div 2, byt |-> FALSE]
        ELSE [el |-> IF k = 17 THEN "da" ELSE "dl", j |-> IF k = 19 THEN 9 ELSE 8,
              byt |-> TRUE]]

\* C22: for Mercury to Neptune every term is applied once, in the order of
\* the code; da is the mean semi-major axis plus its terms 0 .. 7 and t
\* times its term 8, dl before reduction is the mean longitude plus its
\* terms 0 .. 7 and t times its terms 8 and 9, the dl handed on is that sum
\* reduced, and the daily motion is formed from the perturbed da.
C22_EachTermOnceThenReduced ==
    (planet.called /\ planet.np \in 1 .. 8) =>
        LET ip  == planet.np - 1
            t   == Fix(PlanetT(planet.date))
            dmu == MulFix(3595362, t)
            el  == planet.planel[1]
        IN  /\ planet.unreduced.applied = PlanetAppliedInOrder
            /\ el.da = planet.unreduced.da
                       + SeqSum([j \in 1 .. 8 |-> PlanetAxisTerm(ip, j - 1, dmu)])
                       + MulFix(t, PlanetAxisTerm(ip, 8, dmu))
            /\ planet.unreduced.dl =
                   PlanetAngle(dlm[ip + 1], t)
                   + SeqSum([j \in 1 .. 8 |->
                               (PlanetLongitudeTerm(ip, j - 1, dmu) + 500) \div 1000])
                   + SeqSum([j \in 1 .. 2 |->
                               (MulFix(t, PlanetLongitudeTerm(ip, j + 7, dmu)) + 500)
                                   \div 1000])
            /\ el.dl = dmod(planet.unreduced.dl, D2PI)
            /\ el.dm = PlanetDailyMotion(ip, el.da)

\* Jupiter one millennium before J2000: the terms scaled by t change sign,
\* the semi-major axis is perturbed and the daily motion follows it
C22_Witness ==
    /\ planet.called /\ planet.np = 5 /\ planet.date = DJ2000 - 36525000
    /\ Len(planet.planel) = 1
    /\ planet.planel[1].da # planet.unreduced.da
    /\ planet.planel[1].dm = PlanetDailyMotion(4, planet.planel[1].da)
    /\ planet.planel[1].dm # PlanetDailyMotion(4, planet.unreduced.da)
    /\ planet.planel[1].dl # planet.unreduced.dl

\* C23: slaPlanel is called once in a call for np in 1 .. 8 and not at all
\* for np = 9 or an illegal np, so the status -2 is returned for np in
\* 1 .. 8 only.
C23_PredictionOncePerCall ==
    planet.called =>
        /\ Len(planet.planel) = (IF planet.np \in 1 .. 8 THEN 1 ELSE 0)
        /\ planet.jstat = -2 => planet.np \in 1 .. 8

\* Neptune with a failed prediction: one call of slaPlanel, status -2
C23_Witness ==
    /\ planet.called /\ planet.np = 8
    /\ Len(planet.planel) = 1 /\ planet.planel[1].j < 0
    /\ planet.jstat = -2

\* the contribution of row j to a sum, with the coefficients of row j of the
\* table P (psi or eps) and theta from row j of na
NutcRowTerm(P, j, t, ang) ==
    The({ MulFix(P[j + 1][1] + MulFix(P[j + 1][3], t), cos_(theta))
          + MulFix(P[j + 1][2] + MulFix(P[j + 1][4], t), sin_(theta)) :
          theta \in {NutcRadians(SeqSum([k \in 1 .. 9 |-> na[j + 1][k] * ang[k]]))} })

\* the sums over all rows of the contributions to dp and de, at the epochs
\* t of ThreadTimes, evaluated once
NutcRowSumsAt ==
    [t \in ThreadTimes |->
        The({ [dp |-> SeqSum([j \in 1 .. Len(psi) |-> NutcRowTerm(psi, j - 1, t, ang)]),
               de |-> SeqSum([j \in 1 .. Len(eps) |-> NutcRowTerm(eps, j - 1, t, ang)]),
               seed |-> NutcGeodesic(ang).dp] :
              ang \in {NutcAngles(t)} })] @@ <<>>

\* C24: dp starts from the geodesic nutation and de from zero, and every row
\* of the tables contributes once to each, with theta from row j of na and
\* the coefficients of row j of psi and of eps; only rows of the tables are
\* read.
C24_SeededThenEachRowOnce ==
    nutc.called =>
        /\ Len(nutc.terms) = Len(na)
        /\ {nutc.terms[k] : k \in 1 .. Len(nutc.terms)} = 0 .. Len(na) - 1
        /\ Fix(Ratio(nutc.date - DJM0, DJC)) \in ThreadTimes =>
              LET x == NutcRowSumsAt[Fix(Ratio(nutc.date - DJM0, DJC))]
              IN  /\ nutc.dp = x.seed + x.dp
                  /\ nutc.de = 0 + x.de

\* a tenth of a century after J2000: both sums carry the 194 rows, and dp the
\* seed as well
C24_Witness ==
    /\ nutc.called /\ nutc.date = DJM0 + DJC \div 10
    /\ nutc.dp = NutcRowSumsAt[ONE \div 10].seed + NutcRowSumsAt[ONE \div 10].dp
    /\ NutcRowSumsAt[ONE \div 10].seed # 0
    /\ nutc.de = NutcRowSumsAt[ONE \div 10].de /\ nutc.de # 0

\* C25: the rows are added in the same order in every call and at every
\* epoch: row nterms - 1 first, then each time the row below, down to row 0.
C25_FixedOrderLastToFirst ==
    nutc.called =>
        /\ Len(nutc.terms) = nterms
        /\ nutc.terms[1] = nterms - 1
        /\ \A k \in 1 .. Len(nutc.terms) - 1 : nutc.terms[k + 1] = nutc.terms[k] - 1
        /\ nutc.before.terms # <<>> => nutc.before.terms = nutc.terms

\* a second call, at another epoch, with the order of the call before it
C25_Witness ==
    /\ nutc.called /\ nutc.before.terms # <<>>
    /\ nutc.before.dpsi # nutc.dpsi
    /\ nutc.before.terms = nutc.terms
    /\ nutc.terms[2] = 192 /\ nutc.terms[193] = 1

(***************************************************************************)
(* Properties of CtrkModule.                                               *)
(***************************************************************************)
\* C26: CycleUpdate never uses the real-time clock interface while it is
\* unset: whenever a cycle runs m_spRTime holds its interface, in every
\* interleaving of SetObjStateSO with the cyclic caller, and m_spRTime is
\* released only when the module is no longer in the caller's list.
C26_ClockHeldWheneverCycleRuns ==
    [][/\ trk'.cycle.n > trk.cycle.n => trk.rtime.ptr
       /\ (trk.rtime.ptr /\ ~trk'.rtime.ptr) => trk.registered = 0]_vars

\* C27: when SetObjStateSO has returned a failure, the module is not in the
\* caller's list, m_spCyclicCaller and m_spRTime hold nothing, the value
\* returned is that of the stage that failed, and the clock interface was
\* not queried if the registration had failed.
C27_FailedTransitionLeavesNothing ==
    (trk.pc = "idle" /\ trk.ret.fn = "SetObjStateSO" /\ FAILED(trk.ret.hr)) =>
        /\ trk.registered = 0
        /\ ~trk.caller.ptr /\ ~trk.rtime.ptr
        /\ trk.ret.hr = (IF FAILED(trk.so.add) THEN trk.so.add ELSE trk.so.query)
        /\ FAILED(trk.so.add) => trk.so.query = "none"

\* the clock query failed after a successful registration, and the cleanup
\* took the module out of the caller's list again
C27_Witness ==
    /\ trk.pc = "idle" /\ trk.ret.fn = "SetObjStateSO"
    /\ trk.so.add = "S_OK" /\ trk.so.query = "E_NOINTERFACE"
    /\ trk.remove.called /\ trk.remove.registered = 1

\* C28: every CycleUpdate calls the tracking computation exactly once and
\* writes time_tai and time_utc, also when the read of the distributed clock
\* failed, and returns what the read of the clock returned.
C28_EveryCycleComputesAndWrites ==
    trk.cycle.n > 0 =>
        /\ trk.cycle.computed = 1
        /\ trk.cycle.tai /\ trk.cycle.utc
        /\ trk.cycle.hr = trk.cycle.clock

\* C29: AddModuleToCaller returns success only if the module was added to
\* the caller's list; with no task configured it returns ADS_E_INVALIDOBJID,
\* with a failed query or a failed AddModule it returns that failure, on each
\* of these paths the list is as it was, and after a failed AddModule
\* m_spCyclicCaller holds nothing.
C29_SuccessOnlyIfAdded ==
    trk.add.called =>
        /\ ~FAILED(trk.add.hr) => trk.add.after = trk.add.before + 1
        /\ FAILED(trk.add.hr) => trk.add.after = 0
        /\ ~trk.add.oid => trk.add.hr = "ADS_E_INVALIDOBJID"
        /\ (trk.add.oid /\ FAILED(trk.add.query)) => trk.add.hr = trk.add.query
        /\ (trk.add.oid /\ ~FAILED(trk.add.query) /\ FAILED(trk.add.add))
               => (trk.add.hr = trk.add.add /\ ~trk.add.ptr)
        /\ (trk.add.oid /\ ~FAILED(trk.add.query) /\ ~FAILED(trk.add.add))
               => ~FAILED(trk.add.hr)

\* AddModule on the caller failed
C29_Witness ==
    trk.add.called /\ trk.add.add = "E_FAIL"

\* C30: SetObjStateOS always returns S_OK and leaves the module out of the
\* caller's list with m_spCyclicCaller and m_spRTime holding nothing,
\* whatever the state before it; RemoveModuleFromCaller never calls the
\* caller for a module that is not in its list; and the module is never in
\* the list more than once.
C30_DeregisteredAndAtMostOnce ==
    /\ (trk.pc = "idle" /\ trk.ret.fn = "SetObjStateOS") =>
           /\ trk.ret.hr = "S_OK"
           /\ trk.registered = 0
           /\ ~trk.caller.ptr /\ ~trk.rtime.ptr
    /\ ~trk.strayRemove
    /\ trk.registered <= 1

\* SetObjStateOS has returned after taking a module that had run a cycle out
\* of the caller's list
C30_Witness ==
    /\ trk.pc = "idle" /\ trk.ret.fn = "SetObjStateOS"
    /\ trk.remove.called /\ trk.remove.registered = 1
    /\ trk.cycle.n > 0

====
